---- MODULE Spec2Model ----
(***************************************************************************)
(* ERTK codegen engine: the incremental build controller (runGenerate) and *)
(* the watch controller (runWatch), with the helpers they call.            *)
(*                                                                         *)
(* A relative source path is a record [dir, base, ext]: "tasks/list.ts" is *)
(* [dir |-> <<"tasks">>, base |-> "list", ext |-> "ts"].  A file's content *)
(* is a record naming what the extractor finds in it.  Directories (the    *)
(* source tree, the output tree) are functions whose DOMAIN is the set of  *)
(* files that exist.  JavaScript objects and Maps keep insertion order, so *)
(* the manifest and the descriptor cache are sequences of entries.         *)
(***************************************************************************)
EXTENDS Integers, Sequences, FiniteSets, TLC

\* ─── Bounds ────────────────────────────────────────────────────────────
MaxEnv == 2        \* things the environment does: edits, deletions, kills
MaxRuns == 3       \* runGenerate invocations
MaxSessions == 1   \* runWatch invocations
MaxNotes == 2      \* source-tree changes made while fs.watch is listening
MaxWatchEnv == 1   \* as MaxEnv, in a watch session
MaxBurst == 5      \* saves of one file while fs.watch is listening
MaxQueue == 2      \* notifications waiting for the event loop
TickMs == 100      \* granularity of the clock

\* ─── Program constants ─────────────────────────────────────────────────
DebounceMs == 300

\* ─── Source tree ───────────────────────────────────────────────────────
PCreate == [dir |-> <<"tasks">>, base |-> "create", ext |-> "ts"]
PList == [dir |-> <<"tasks">>, base |-> "list", ext |-> "ts"]
PNotes == [dir |-> <<"tasks">>, base |-> "notes", ext |-> "md"]
PUpdate == [dir |-> <<"tasks">>, base |-> "update", ext |-> "ts"]

\* every path of the modelled tree, in the order of Array.prototype.sort
\* ("tasks/create.ts" < "tasks/list.ts" < "tasks/notes.md" < "tasks/update.ts")
PathOrder == <<PCreate, PList, PNotes, PUpdate>>

\* the paths the environment of a build or watch session writes to
Paths == {PCreate, PList, PNotes}

PathRank(p) == CHOOSE i \in 1..Len(PathOrder) : PathOrder[i] = p

\* A source file is what ts-morph shows of it: whether it has a default
\* export, its call expressions `object.method(...)` in document order, the
\* kind of the first argument of the endpoint call, and the properties of
\* that object literal.  A property is a node [kind, init, obj]: init is the
\* text of the initializer as a sequence of tokens, obj is <<properties>>
\* when the initializer is an object literal and <<>> otherwise.
Assign(text) == [kind |-> "PropertyAssignment", init |-> text, obj |-> <<>>]

AssignObject(props) ==
    [kind |-> "PropertyAssignment", init |-> <<"{}">>, obj |-> <<props>>]

Shorthand == [kind |-> "ShorthandPropertyAssignment", init |-> <<>>, obj |-> <<>>]

Method == [kind |-> "MethodDeclaration", init |-> <<>>, obj |-> <<>>]

\* the text of a string literal
Lit(str) == <<"'", str, "'">>

EndpointFile(method, props) ==
    [export |-> TRUE,
     calls |-> <<[object |-> "endpoint", method |-> method]>>,
     arg |-> "ObjectLiteralExpression",
     props |-> props]

CGetA == EndpointFile("get", [name |-> Assign(Lit("listTasks")),
                              handler |-> Assign(<<"h1">>),
                              query |-> Assign(<<"q1">>)])
CGetB == EndpointFile("get", [name |-> Assign(Lit("listTasks")),
                              handler |-> Assign(<<"h1">>),
                              query |-> Assign(<<"q2">>)])
CPost == EndpointFile("post", [name |-> Assign(Lit("createTask")),
                               handler |-> Assign(<<"h2">>),
                               query |-> Assign(<<"q3">>)])
CNoName == EndpointFile("get", [handler |-> Assign(<<"h1">>),
                                query |-> Assign(<<"q1">>)])
CText == [export |-> FALSE, calls |-> <<>>, arg |-> "none",
          props |-> [k \in {} |-> Shorthand]]

TsContents == {CGetA, CGetB, CPost, CNoName}

ContentsOf(p) == IF p.ext = "ts" THEN TsContents ELSE {CText}

EmptyDir == [x \in {} |-> x]

Remove(f, k) == [x \in (DOMAIN f) \ {k} |-> f[x]]

Put(f, k, v) == [x \in (DOMAIN f) \cup {k} |-> IF x = k THEN v ELSE f[x]]

\* the source trees a session starts from
InitialTrees ==
    {EmptyDir,
     Put(EmptyDir, PNotes, CText),
     Put(EmptyDir, PList, CGetA),
     Put(Put(EmptyDir, PList, CNoName), PCreate, CPost),
     Put(Put(Put(EmptyDir, PList, CGetA), PCreate, CPost), PNotes, CText)}

\* ─── Configuration (resolveConfig defaults, routes configured) ────────
CrudFilenames == {"get", "list", "create", "update", "delete", "send",
                  "remove", "cancel"}

IgnoredRoutes == {}

RoutesDir == <<"app", "api">>

GeneratedDir == <<"src", "generated">>

EndpointsImportRoot == <<"@app", "endpoints">>

\* ─── Sequences as ordered maps ─────────────────────────────────────────
RECURSIVE SeqFilter(_, _)
SeqFilter(s, keep) ==
    IF s = <<>> THEN <<>>
    ELSE IF Head(s) \in keep THEN <<Head(s)>> \o SeqFilter(Tail(s), keep)
    ELSE SeqFilter(Tail(s), keep)

Keys(m) == [i \in 1..Len(m) |-> m[i].k]

KeySet(m) == {m[i].k : i \in 1..Len(m)}

Values(m) == [i \in 1..Len(m) |-> m[i].v]

Lookup(m, k) == (CHOOSE i \in 1..Len(m) : m[i].k = k)

\* obj[k] = v and Map.set(k, v): an existing key keeps its place
MapSet(m, k, v) ==
    IF k \in KeySet(m)
    THEN [i \in 1..Len(m) |-> IF m[i].k = k THEN [k |-> k, v |-> v] ELSE m[i]]
    ELSE Append(m, [k |-> k, v |-> v])

\* delete obj[k] and Map.delete(k)
RECURSIVE MapDelete(_, _)
MapDelete(m, k) ==
    IF m = <<>> THEN <<>>
    ELSE IF Head(m).k = k THEN MapDelete(Tail(m), k)
    ELSE <<Head(m)>> \o MapDelete(Tail(m), k)

\* ─── Extraction ────────────────────────────────────────────────────────
\* filePath.replace(/\.ts$/, "").split("/")
\* (only .ts paths are ever extracted: scanEndpointFiles and the watch
\* callback filter on the extension)
PathParts(p) == Append(p.dir, p.base)

\* a route that keeps every segment of the path
RouteSegmentsKeepAll(parts, crud) == parts

\* lines 308-317: pop the file name, keep it unless it is a CRUD filename
RouteSegments(parts, crud) ==
    LET fileName == parts[Len(parts)]
        dirs == SubSeq(parts, 1, Len(parts) - 1)
    IN IF fileName \notin crud THEN Append(dirs, fileName) ELSE dirs

DeriveRoutePath(p) == <<"api">> \o RouteSegments(PathParts(p), CrudFilenames)

\* The same on the text of a path, a sequence of tokens: the segments,
\* a "/" between two of them, and ".ts" at the end ("tasks/list.ts" is
\* <<"tasks", "/", "list", ".ts">>).
\* filePath.replace(/\.ts$/, "")
StripTs(text) ==
    IF text # <<>> /\ text[Len(text)] = ".ts" THEN SubSeq(text, 1, Len(text) - 1)
    ELSE text

\* text.split("/")
SplitPath(text) == SelectSeq(text, LAMBDA t : t # "/")

\* segments.join("/")
RECURSIVE JoinPath(_)
JoinPath(segments) ==
    IF Len(segments) <= 1 THEN segments
    ELSE <<Head(segments), "/">> \o JoinPath(Tail(segments))

\* lines 306-320 on a path text and a CRUD filename set
DeriveRoutePathText(filePath, crud) ==
    <<"/api/">> \o JoinPath(RouteSegments(SplitPath(StripTs(filePath)), crud))

Methods == {"get", "post", "put", "patch", "delete"}

\* lines 68-93: the first call expression that is endpoint.{method}(...)
RECURSIVE FirstEndpointCall(_)
FirstEndpointCall(calls) ==
    IF calls = <<>> THEN <<>>
    ELSE IF Head(calls).object = "endpoint" /\ Head(calls).method \in Methods
         THEN <<Head(calls)>>
         ELSE FirstEndpointCall(Tail(calls))

QuoteChars == {"'", "\""}

\* text.replace(/['"]/g, "")
StripQuotes(text) == SelectSeq(text, LAMBDA ch : ch \notin QuoteChars)

Digits == <<"0", "1", "2", "3", "4", "5", "6", "7", "8", "9">>

IsDigit(ch) == \E d \in 1..Len(Digits) : Digits[d] = ch

DigitValue(ch) == (CHOOSE d \in 1..Len(Digits) : Digits[d] = ch) - 1

RECURSIVE LeadingDigits(_, _)
LeadingDigits(text, acc) ==
    IF text = <<>> \/ ~IsDigit(Head(text)) THEN acc
    ELSE LeadingDigits(Tail(text), acc * 10 + DigitValue(Head(text)))

NaN == [nan |-> TRUE, val |-> 0]

\* parseInt(text, 10) of a token sequence of characters: an optional sign,
\* then the leading decimal digits; NaN when there is none
ParseInt(text) ==
    LET neg == text # <<>> /\ Head(text) = "-"
        body == IF text # <<>> /\ Head(text) \in {"-", "+"} THEN Tail(text)
                ELSE text
    IN IF body = <<>> \/ ~IsDigit(Head(body)) THEN NaN
       ELSE [nan |-> FALSE,
             val |-> IF neg THEN 0 - LeadingDigits(body, 0)
                     ELSE LeadingDigits(body, 0)]

\* node.asKindOrThrow(SyntaxKind.PropertyAssignment) throws
NotAssignment(node) == node.kind # "PropertyAssignment"

\* the text of an optional property's initializer, <<>> when it is absent
InitOf(props, key) == IF key \in DOMAIN props THEN props[key].init ELSE <<>>

\* lines 169-196: the properties of the `tags` object literal, if it is one
TagsProps(props) ==
    IF "tags" \in DOMAIN props /\ ~NotAssignment(props["tags"])
       /\ props["tags"].obj # <<>>
    THEN props["tags"].obj[1]
    ELSE [k \in {} |-> Shorthand]

\* lines 138-222: some asKindOrThrow after the name check throws
ThrowsAfterName(props) ==
    \/ \E key \in {"protected", "query", "tags", "optimistic", "maxRetries"} :
          key \in DOMAIN props /\ NotAssignment(props[key])
    \/ \E key \in {"provides", "invalidates"} :
          key \in DOMAIN TagsProps(props) /\ NotAssignment(TagsProps(props)[key])

\* lines 208-222; 0 stands for null
MaxRetriesOf(props) ==
    LET val == ParseInt(InitOf(props, "maxRetries"))
    IN IF "maxRetries" \in DOMAIN props /\ ~val.nan /\ val.val > 0
       THEN val.val ELSE 0

Skipped(warning) == [tag |-> "null", ep |-> <<>>, warning |-> warning]

Thrown == [tag |-> "throws", ep |-> <<>>, warning |-> ""]

\* what a call of parseEndpointFile does: tag "descriptor" with ep =
\* <<descriptor>>, tag "null" with the warning it logs, or tag "throws"
ParseEndpointFile(p, c) ==
    IF ~c.export THEN Skipped("No default export")
    ELSE IF FirstEndpointCall(c.calls) = <<>>
    THEN Skipped("No endpoint.{method}() call found")
    ELSE IF c.arg # "ObjectLiteralExpression"
    THEN Skipped("Config argument not found")
    ELSE IF "name" \in DOMAIN c.props /\ NotAssignment(c.props["name"])
    THEN Thrown
    ELSE IF StripQuotes(InitOf(c.props, "name")) = <<>>
    THEN Skipped("No name property")
    ELSE IF ThrowsAfterName(c.props) THEN Thrown
    ELSE LET method == FirstEndpointCall(c.calls)[1].method
         IN [tag |-> "descriptor",
             warning |-> "",
             ep |-> <<[name |-> StripQuotes(InitOf(c.props, "name")),
                       method |-> method,
                       filePath |-> p,
                       importPath |-> EndpointsImportRoot \o PathParts(p),
                       routePath |-> DeriveRoutePath(p),
                       isProtected |-> IF "protected" \in DOMAIN c.props
                                       THEN InitOf(c.props, "protected") # <<"false">>
                                       ELSE TRUE,
                       hasRequest |-> "request" \in DOMAIN c.props,
                       hasHandler |-> "handler" \in DOMAIN c.props,
                       queryFnSource |-> InitOf(c.props, "query"),
                       endpointType |-> IF method = "get" THEN "query"
                                        ELSE "mutation",
                       providesTagsSource |-> InitOf(TagsProps(c.props), "provides"),
                       invalidatesTagsSource |->
                           InitOf(TagsProps(c.props), "invalidates"),
                       optimisticSource |-> InitOf(c.props, "optimistic"),
                       maxRetries |-> MaxRetriesOf(c.props)]>>]

\* ─── Incremental build helpers ─────────────────────────────────────────
SortPaths(S) == SeqFilter(PathOrder, S)

ScanEndpointFiles(tree) == SortPaths({f \in DOMAIN tree : f.ext = "ts"})

\* Array.prototype.sort on a list of paths: insertion into the sorted rest
InsertSorted(sorted, p) ==
    LET before == SelectSeq(sorted, LAMBDA q : PathRank(q) <= PathRank(p))
        after == SelectSeq(sorted, LAMBDA q : PathRank(q) > PathRank(p))
    IN before \o <<p>> \o after

\* a directory enumeration left in the order readdirSync gave
Unsorted(list) == list

RECURSIVE SortList(_)
SortList(list) ==
    IF list = <<>> THEN <<>>
    ELSE InsertSorted(SortList(Tail(list)), Head(list))

\* lines 721-724 on what readdirSync returned
ScanListing(allFiles) == SortList(SelectSeq(allFiles, LAMBDA f : f.ext = "ts"))

\* md5 of the file's bytes, as a hex digest
HashFile(c) ==
    CASE c = CGetA -> "9f1c"
      [] c = CGetB -> "03ab"
      [] c = CPost -> "e270"
      [] c = CNoName -> "5d44"
      [] OTHER -> "71b8"

\* the manifest file: missing, not JSON ("garbage"), or the JSON text of a
\* value: null, a scalar, or an object with its entries in order
MissingFile == [kind |-> "missing", entries |-> <<>>]

JsonText(kind, entries) == [kind |-> kind, entries |-> entries]

EmptyObject == [kind |-> "object", entries |-> <<>>]

\* a loadManifest that never finds a manifest
LoadManifestNever(file) == EmptyObject

\* JSON.parse of the file's text; any exception gives {}
LoadManifest(file) ==
    IF file.kind \in {"missing", "garbage"} THEN EmptyObject
    ELSE [kind |-> file.kind, entries |-> file.entries]

\* JSON.stringify(manifest, null, 2) + "\n"
SaveManifest(m) == JsonText("object", m)

RECURSIVE BuildManifestFrom(_, _, _)
BuildManifestFrom(fileList, tree, acc) ==
    IF fileList = <<>> THEN acc
    ELSE BuildManifestFrom(Tail(fileList), tree,
                           MapSet(acc, Head(fileList), HashFile(tree[Head(fileList)])))

BuildManifest(fileList, tree) == BuildManifestFrom(fileList, tree, <<>>)

\* Object.keys(v): throws on null, is empty for a number or a boolean
ObjectKeysThrows(v) == v.kind = "null"

SortedKeys(v) == IF v.kind = "object" THEN SortPaths(KeySet(v.entries)) ELSE <<>>

Get(v, k) == v.entries[Lookup(v.entries, k)].v

\* a comparison of the key sets alone
ManifestsMatchKeysOnly(a, b) ==
    IF ObjectKeysThrows(a) \/ ObjectKeysThrows(b) THEN "TypeError"
    ELSE IF SortedKeys(a) = SortedKeys(b) THEN "match" ELSE "mismatch"

\* "TypeError", "match" or "mismatch"
ManifestsMatch(a, b) ==
    IF ObjectKeysThrows(a) \/ ObjectKeysThrows(b) THEN "TypeError"
    ELSE LET keysA == SortedKeys(a)
             keysB == SortedKeys(b)
         IN IF Len(keysA) # Len(keysB) THEN "mismatch"
            ELSE IF \A i \in 1..Len(keysA) :
                       /\ keysA[i] = keysB[i]
                       /\ Get(a, keysA[i]) = Get(b, keysB[i])
                 THEN "match" ELSE "mismatch"

\* a route handler file
IsRouteFile(path) == path[Len(path)] = "route.ts"

\* a generation that clears the route files before it writes its first
\* artifact
WriteIfChangedCleaning(outTree, path, content) ==
    LET kept == IF path[Len(path)] = "api.ts"
                THEN [x \in {y \in DOMAIN outTree : ~IsRouteFile(y)} |-> outTree[x]]
                ELSE outTree
    IN IF (path \in DOMAIN kept) /\ (kept[path] = content) THEN kept
       ELSE Put(kept, path, content)

\* the output tree after writeIfChanged(path, content)
WriteIfChanged(outTree, path, content) ==
    IF (path \in DOMAIN outTree) /\ (outTree[path] = content) THEN outTree
    ELSE Put(outTree, path, content)

\* whether writeIfChanged(path, content) writes
Writes(outTree, path, content) ==
    ~((path \in DOMAIN outTree) /\ (outTree[path] = content))

RECURSIVE ParseFiles(_, _, _)
ParseFiles(fileList, tree, cch) ==
    IF fileList = <<>> THEN cch
    ELSE LET parsed == ParseEndpointFile(Head(fileList), tree[Head(fileList)]).ep
         IN ParseFiles(Tail(fileList), tree,
                       IF parsed # <<>> THEN MapSet(cch, Head(fileList), parsed[1])
                       ELSE cch)

ParseAllEndpoints(tree) == ParseFiles(ScanEndpointFiles(tree), tree, <<>>)

\* the loop of parseAllEndpoints with what leaves it: the files it warned
\* about, and the exception of a parseEndpointFile call, which it does not
\* catch
RECURSIVE ParseLoop(_, _, _)
ParseLoop(fileList, tree, acc) ==
    IF fileList = <<>> THEN acc
    ELSE LET file == Head(fileList)
             parsed == ParseEndpointFile(file, tree[file])
         IN IF parsed.tag = "throws"
            THEN [acc EXCEPT !.tag = "throws", !.at = <<file>>]
            ELSE ParseLoop(Tail(fileList), tree,
                     IF parsed.tag = "descriptor"
                     THEN [acc EXCEPT !.cache = MapSet(@, file, parsed.ep[1])]
                     ELSE [acc EXCEPT !.warned = Append(@, file)])

ParseAllOutcome(tree) ==
    ParseLoop(ScanEndpointFiles(tree), tree,
              [tag |-> "returns", at |-> <<>>, cache |-> <<>>, warned |-> <<>>])

\* ─── Route grouping ────────────────────────────────────────────────────
\* path.join(config.routes.dir, routePath.replace(/^\/api\//, ""))
AppRouteDir(routePath) ==
    RoutesDir \o (IF Len(routePath) > 1 /\ routePath[1] = "api"
                  THEN Tail(routePath) ELSE routePath)

UpperCase(method) ==
    CASE method = "get" -> "GET"
      [] method = "post" -> "POST"
      [] method = "put" -> "PUT"
      [] method = "patch" -> "PATCH"
      [] method = "delete" -> "DELETE"
      [] OTHER -> method

\* a grouping that skips no descriptor
ClientOnlyNever(ep) == ep.hasHandler # ep.hasHandler

\* line 333: the descriptor has no handler
ClientOnly(ep) == ~ep.hasHandler

\* a group that keeps the first descriptor of a method
SetMethodFirstWins(methods, httpMethod, ep) ==
    IF httpMethod \in KeySet(methods) THEN methods
    ELSE MapSet(methods, httpMethod, ep)

\* line 347: methods.set(httpMethod, ep)
SetMethod(methods, httpMethod, ep) == MapSet(methods, httpMethod, ep)

RECURSIVE GroupFrom(_, _)
GroupFrom(endpoints, groups) ==
    IF endpoints = <<>> THEN groups
    ELSE LET ep == Head(endpoints)
             rest == Tail(endpoints)
         IN IF ClientOnly(ep) THEN GroupFrom(rest, groups)
            ELSE LET g0 == IF ep.routePath \in KeySet(groups) THEN groups
                           ELSE MapSet(groups, ep.routePath,
                                       [routePath |-> ep.routePath,
                                        appRouteDir |-> AppRouteDir(ep.routePath),
                                        methods |-> <<>>])
                     g == g0[Lookup(g0, ep.routePath)].v
                 IN GroupFrom(rest,
                              MapSet(g0, ep.routePath,
                                     [g EXCEPT !.methods =
                                          SetMethod(g.methods, UpperCase(ep.method), ep)]))

GroupEndpointsByRoute(endpoints) == GroupFrom(endpoints, <<>>)

\* path.relative(routes.dir, routeDir).split(sep)[0] is an ignored segment
IsIgnoredRoute(routeDir) ==
    LET rel == SubSeq(routeDir, Len(RoutesDir) + 1, Len(routeDir))
    IN rel # <<>> /\ rel[1] \in IgnoredRoutes

\* ─── Optimistic updates ────────────────────────────────────────────────
MaxUpdates == 2   \* elements of an `updates` array

\* tokens that are \w+ and tokens that are \([^)]*\)
Words == {"getTasks", "p", "patchTask", "undefined"}

ParamLists == {"(p)", "(draft, p)"}

\* source.includes(key), key one token of the text
Includes(text, key) == \E i \in DOMAIN text : text[i] = key

Least(S) == CHOOSE i \in S : \A j \in S : i <= j

Greatest(S) == CHOOSE i \in S : \A j \in S : j <= i

\* a match is <<>> when the pattern does not match and <<capture>> when
\* it does

\* text.match(/target:\s*["'](\w+)["']/)
TargetMatch(text) ==
    LET hits == {i \in 1..(Len(text) - 3) :
                    /\ text[i] = "target:"
                    /\ text[i + 1] \in QuoteChars
                    /\ text[i + 2] \in Words
                    /\ text[i + 3] \in QuoteChars}
    IN IF hits = {} THEN <<>> ELSE <<text[Least(hits) + 2]>>

\* (?:\([^)]*\)|\w+)\s*=> at position i
ArrowAt(text, i) ==
    /\ i + 1 <= Len(text)
    /\ text[i] \in ParamLists \cup Words
    /\ text[i + 1] = "=>"

\* where [\s\S]*? may stop for the lookahead (?=,\s*(?:keys):)
ArgsEnds(text, i, keys) ==
    {j \in (i + 3)..(Len(text) - 1) : text[j] = "," /\ text[j + 1] \in keys}

\* text.match(/args:\s*((?:\([^)]*\)|\w+)\s*=>[\s\S]*?)(?=,\s*(?:keys):)/)
ArgsMatch(text, keys) ==
    LET hits == {i \in DOMAIN text :
                    /\ text[i] = "args:"
                    /\ ArrowAt(text, i + 1)
                    /\ ArgsEnds(text, i, keys) # {}}
    IN IF hits = {} THEN <<>>
       ELSE <<SubSeq(text, Least(hits) + 1,
                     Least(ArgsEnds(text, Least(hits), keys)) - 1)>>

\* where [\s\S]*? may stop for the lookahead (?=,?\s*}$)
UpdateEnds(text, i) ==
    {j \in (i + 3)..Len(text) :
        SubSeq(text, j, Len(text)) \in {<<",", "}">>, <<"}">>}}

\* text.match(/update:\s*((?:\([^)]*\)|\w+)\s*=>[\s\S]*?)(?=,?\s*}$)/)
UpdateMatch(text) ==
    LET hits == {i \in DOMAIN text :
                    /\ text[i] = "update:"
                    /\ ArrowAt(text, i + 1)
                    /\ UpdateEnds(text, i) # {}}
    IN IF hits = {} THEN <<>>
       ELSE <<SubSeq(text, Least(hits) + 1,
                     Least(UpdateEnds(text, Least(hits))) - 1)>>

\* text.match(/condition:\s*((?:\([^)]*\)|\w+)\s*=>[^,}]*)/)
ConditionMatch(text) ==
    LET hits == {i \in DOMAIN text : text[i] = "condition:" /\ ArrowAt(text, i + 1)}
        stops(i) == {j \in (i + 3)..Len(text) : text[j] \in {",", "}"}}
    IN IF hits = {} THEN <<>>
       ELSE <<SubSeq(text, Least(hits) + 1,
                     IF stops(Least(hits)) = {} THEN Len(text)
                     ELSE Least(stops(Least(hits))) - 1)>>

\* lines 611-628: the top-level {...} groups of the array's content
RECURSIVE ScanUpdates(_, _, _, _)
ScanUpdates(content, depth, current, updates) ==
    IF content = <<>> THEN updates
    ELSE LET char == Head(content)
         IN IF char = "{"
            THEN ScanUpdates(Tail(content), depth + 1, Append(current, char), updates)
            ELSE IF char = "}"
            THEN IF depth - 1 = 0
                 THEN ScanUpdates(Tail(content), 0, <<>>,
                                  Append(updates, Append(current, char)))
                 ELSE ScanUpdates(Tail(content), depth - 1, Append(current, char),
                                  updates)
            ELSE IF depth > 0
            THEN ScanUpdates(Tail(content), depth, Append(current, char), updates)
            ELSE ScanUpdates(Tail(content), depth, current, updates)

\* lines 605-631; <<>> stands for null
ExtractUpdatesArray(source) ==
    LET opens == {i \in 1..(Len(source) - 2) :
                     /\ source[i] = "updates:"
                     /\ source[i + 1] = "["
                     /\ \E j \in (i + 2)..Len(source) : source[j] = "]"}
        closes == {j \in DOMAIN source : source[j] = "]"}
    IN IF opens = {} THEN <<>>
       ELSE ScanUpdates(SubSeq(source, Least(opens) + 2, Greatest(closes) - 1),
                        0, <<>>, <<>>)

\* the lines of generated code, a run of lines that belong together as one
\* record
OpenHandler == [line |-> "async onQueryStarted(params, { dispatch, queryFulfilled }) {"]

PatchesDecl == [line |-> "const patches = [];"]

PatchResult(target, argsFn, updateFn) ==
    [line |-> "const patchResult = dispatch(api.util.updateQueryData(...));",
     target |-> target, args |-> argsFn, update |-> updateFn]

PushPatch(target, argsFn, updateFn, condition) ==
    [line |-> "patches.push(dispatch(api.util.updateQueryData(...)));",
     target |-> target, args |-> argsFn, update |-> updateFn,
     condition |-> condition]

UndoOne == [line |-> "try { await queryFulfilled; } catch { patchResult.undo(); }"]

UndoAll == [line |-> "try { await queryFulfilled; } catch { for (const p of patches) p.undo(); }"]

CloseHandler == [line |-> "},"]

\* lines 546-592: what one element of the updates array adds
UpdateLines(update) ==
    LET targetMatch == TargetMatch(update)
        conditionMatch == ConditionMatch(update)
        argsMatch == ArgsMatch(update, {"update:", "condition:"})
        updateMatch == UpdateMatch(update)
    IN IF targetMatch # <<>> /\ argsMatch # <<>> /\ updateMatch # <<>>
       THEN <<PushPatch(targetMatch[1], argsMatch[1], updateMatch[1], conditionMatch)>>
       ELSE <<>>

RECURSIVE AllUpdateLines(_)
AllUpdateLines(updatesContent) ==
    IF updatesContent = <<>> THEN <<>>
    ELSE UpdateLines(Head(updatesContent)) \o AllUpdateLines(Tail(updatesContent))

\* lines 536-599
MultiLines(source) ==
    <<OpenHandler, PatchesDecl>>
    \o AllUpdateLines(ExtractUpdatesArray(source))
    \o <<UndoAll, CloseHandler>>

\* lines 505-534
SingleLines(source) ==
    LET targetMatch == TargetMatch(source)
        argsMatch == ArgsMatch(source, {"update:"})
        updateMatch == UpdateMatch(source)
    IN IF targetMatch # <<>> /\ argsMatch # <<>> /\ updateMatch # <<>>
       THEN <<OpenHandler, PatchResult(targetMatch[1], argsMatch[1], updateMatch[1]),
              UndoOne, CloseHandler>>
       ELSE <<>>

\* lines 497-603; <<>> stands for null
GenerateOnQueryStarted(ep) ==
    IF ep.optimisticSource = <<>> THEN <<>>
    ELSE LET isSingle == Includes(ep.optimisticSource, "target:")
             isMulti == Includes(ep.optimisticSource, "updates:")
         IN IF isSingle /\ ~isMulti THEN SingleLines(ep.optimisticSource)
            ELSE IF isMulti THEN MultiLines(ep.optimisticSource)
            ELSE <<>>

\* ─── Code generation ───────────────────────────────────────────────────
\* the lines of one endpoint definition; an optional line is <<>> when it
\* is not emitted and <<what it holds>> when it is
GenerateEndpointDef(ep) ==
    [name |-> ep.name,
     builder |-> IF ep.endpointType = "query" THEN "builder.query"
                 ELSE "builder.mutation",
     query |-> ep.queryFnSource,
     providesTags |-> ep.providesTagsSource,
     invalidatesTags |-> ep.invalidatesTagsSource,
     onQueryStarted |-> IF ep.optimisticSource # <<>>
                        THEN GenerateOnQueryStarted(ep) ELSE <<>>,
     extraOptions |-> IF ep.maxRetries > 0 THEN <<[maxRetries |-> ep.maxRetries]>>
                      ELSE <<>>]

HookExport(ep) ==
    [use |-> ep.name,
     suffix |-> IF ep.endpointType = "query" THEN "Query" ELSE "Mutation"]

\* a test that counts every descriptor as one that retries
HasAnyRetriesAlways(endpoints) == endpoints = endpoints

\* lines 379-381
HasAnyRetries(endpoints) ==
    \E i \in DOMAIN endpoints : endpoints[i].maxRetries > 0

\* config.baseQuery is null: the default transport
DefaultBaseQuery == "fetchBaseQuery({ baseUrl })"

GenerateApiTs(endpoints) ==
    [kind |-> "api.ts",
     imports |-> IF HasAnyRetries(endpoints)
                 THEN <<"createApi", "fetchBaseQuery", "retry">>
                 ELSE <<"createApi", "fetchBaseQuery">>,
     baseQuery |-> IF HasAnyRetries(endpoints)
                   THEN <<"retry(", DefaultBaseQuery, ", { maxRetries: 0 })">>
                   ELSE <<DefaultBaseQuery>>,
     defs |-> [i \in 1..Len(endpoints) |-> GenerateEndpointDef(endpoints[i])],
     hooks |-> [i \in 1..Len(endpoints) |-> HookExport(endpoints[i])]]

GenerateStoreTs == [kind |-> "store.ts"]

GenerateInvalidationTs == [kind |-> "invalidation.ts"]

\* the endpoint imports of a route file, sorted by module path
RouteImports(group) ==
    LET eps == Values(group.methods)
        files == SortPaths({eps[i].filePath : i \in 1..Len(eps)})
    IN [i \in 1..Len(files) |->
           LET ep == eps[CHOOSE j \in 1..Len(eps) : eps[j].filePath = files[i]]
           IN [var |-> ep.name, from |-> ep.importPath]]

GenerateRouteFile(group) ==
    [kind |-> "route.ts",
     imports |-> RouteImports(group),
     exports |-> [i \in 1..Len(group.methods) |->
                     [method |-> group.methods[i].k,
                      handler |-> group.methods[i].v.name]]]

ApiPath == Append(GeneratedDir, "api.ts")

StorePath == Append(GeneratedDir, "store.ts")

InvalidationPath == Append(GeneratedDir, "invalidation.ts")

RoutePathOf(group) == Append(group.appRouteDir, "route.ts")

RECURSIVE RouteArtifacts(_)
RouteArtifacts(groups) ==
    IF groups = <<>> THEN <<>>
    ELSE LET group == Head(groups).v
         IN (IF IsIgnoredRoute(group.appRouteDir) THEN <<>>
             ELSE <<[path |-> RoutePathOf(group),
                     content |-> GenerateRouteFile(group)]>>)
            \o RouteArtifacts(Tail(groups))

\* generate(endpoints): the writeIfChanged calls it makes, in order
Generate(endpoints) ==
    <<[path |-> ApiPath, content |-> GenerateApiTs(endpoints)],
      [path |-> StorePath, content |-> GenerateStoreTs],
      [path |-> InvalidationPath, content |-> GenerateInvalidationTs]>>
    \o RouteArtifacts(GroupEndpointsByRoute(endpoints))

\* ─── State ─────────────────────────────────────────────────────────────
VARIABLES
    src,            \* the endpoints directory: path -> content
    manifestFile,   \* the file at config.manifestPath
    out,            \* the generated files: path -> content
    proc,           \* "none", "generate" (runGenerate) or "watch" (runWatch)
    pc,             \* where the running process is
    manifest,       \* newManifest of runGenerate, manifest of runWatch
    cache,          \* the descriptor cache: path -> ParsedEndpoint, in order
    todo,           \* the writeIfChanged calls generate() has still to make
    debounceTimer,  \* <<>> or <<[left, filename]>>: the pending timeout
    fsEvents,       \* notifications of fs.watch not yet delivered
    budget,         \* what the bounds still allow
    run,            \* history: the invocation in progress
    last,           \* history: the invocation that ended last
    prev,           \* history: the invocation that ended before it
    fire,           \* history: the last run of the debounce callback
    burst,          \* history: the notifications since the last quiet period
    args,           \* a call of one function: <<>> or <<its inputs>>
    result,         \* that call: <<>> until it has returned, then <<outcome>>
    clock,          \* Date.now() of the server process, in ms
    windows,        \* InMemoryRateLimitAdapter.windows: key -> timestamps
    lastPrune,      \* InMemoryRateLimitAdapter.lastPrune
    log,            \* history: the check() calls made and what they returned
    options,        \* the options configureHandler was called with
    req,            \* the request in the route handler: <<>> or <<the request>>
    input,          \* its locals `body` and `query`, once the request is parsed
    step,           \* where the route handler is
    user,           \* its local `user`: <<>> (undefined) or <<the user>>
    rl,             \* <<>> or <<what adapter.check returned>>
    response,       \* <<>> or <<the Response it returned>>
    trace,          \* history: what the handler called for this request
    served          \* requests received so far

controllerVars == <<src, manifestFile, out, proc, pc, manifest, cache, todo,
                    debounceTimer, fsEvents, budget, run, last, prev, fire,
                    burst>>

callVars == <<args, result>>

limiterVars == <<clock, windows, lastPrune, log>>

handlerVars == <<options, req, input, step, user, rl, response, trace, served>>

vars == <<controllerVars, callVars, limiterVars, handlerVars>>

\* what the build and watch controllers never touch
outsideController == <<callVars, limiterVars, handlerVars>>

\* what a call of one function never touches
outsideCall == <<controllerVars, limiterVars, handlerVars>>

\* lines 92-94: a new adapter, at the start of the clock
LimiterIdle ==
    /\ clock = 0
    /\ windows = <<>>
    /\ lastPrune = 0
    /\ log = <<>>

\* configureHandler(): no auth adapter, no rate limit
NoOptions == [auth |-> "none", errorHandlers |-> <<>>, rateLimit |-> <<>>]

\* no request in the route handler
HandlerIdle ==
    /\ req = <<>>
    /\ input = <<>>
    /\ step = "idle"
    /\ user = <<>>
    /\ rl = <<>>
    /\ response = <<>>
    /\ trace = <<>>
    /\ served = 0

OutsideControllerIdle ==
    /\ args = <<>>
    /\ result = <<>>
    /\ LimiterIdle
    /\ options = NoOptions
    /\ HandlerIdle

procVars == <<proc, pc, manifest, cache, todo>>

watchVars == <<debounceTimer, fsEvents, fire, burst>>

\* ─── History records ───────────────────────────────────────────────────
NewRun(tree, file) ==
    [files |-> tree, clean |-> TRUE, mfBefore |-> file, writes |-> 0,
     mfWrites |-> 0, extracted |-> 0, visited |-> {}]

Ended(r, outcome, file) ==
    [outcome |-> outcome, files |-> r.files, clean |-> r.clean,
     mfBefore |-> r.mfBefore, mfAfter |-> file, writes |-> r.writes,
     mfWrites |-> r.mfWrites, extracted |-> r.extracted, visited |-> r.visited,
     touched |-> FALSE]

NoRun == Ended(NewRun(EmptyDir, MissingFile), "none", MissingFile)

\* a burst: notifications that each came less than the debounce duration
\* after the one before; age is the time since the last of them
NoBurst ==
    [n |-> 0, paths |-> {}, kinds |-> {}, age |-> DebounceMs, fires |-> 0,
     regens |-> 0]

NoFire ==
    [path |-> PCreate, case |-> "none", parsed |-> FALSE, hash |-> "gone",
     known |-> "none", before |-> <<>>,
     burst |-> NoBurst, running |-> 0, done |-> FALSE,
     cache |-> <<>>, manifest |-> <<>>, mf |-> MissingFile, out |-> EmptyDir]

\* no build or watch process, nothing on disk
ControllerIdle ==
    /\ src = EmptyDir
    /\ manifestFile = MissingFile
    /\ out = EmptyDir
    /\ proc = "none"
    /\ pc = "idle"
    /\ manifest = <<>>
    /\ cache = <<>>
    /\ todo = <<>>
    /\ debounceTimer = <<>>
    /\ fsEvents = <<>>
    /\ budget = [env |-> 0, runs |-> 0, notes |-> 0, sessions |-> 0]
    /\ run = NewRun(EmptyDir, MissingFile)
    /\ last = NoRun
    /\ prev = NoRun
    /\ fire = NoFire
    /\ burst = NoBurst

OutsideCallIdle ==
    /\ ControllerIdle
    /\ LimiterIdle
    /\ options = NoOptions
    /\ HandlerIdle

Init ==
    /\ src \in InitialTrees
    /\ manifestFile = MissingFile
    /\ out = EmptyDir
    /\ proc = "none"
    /\ pc = "idle"
    /\ manifest = <<>>
    /\ cache = <<>>
    /\ todo = <<>>
    /\ debounceTimer = <<>>
    /\ fsEvents = <<>>
    /\ budget = [env |-> MaxEnv, runs |-> MaxRuns, notes |-> MaxNotes,
                 sessions |-> MaxSessions]
    /\ run = NewRun(EmptyDir, MissingFile)
    /\ last = NoRun
    /\ prev = NoRun
    /\ fire = NoFire
    /\ burst = NoBurst
    /\ OutsideControllerIdle

\* ─── Environment ───────────────────────────────────────────────────────
\* fs.watch is registered once runWatch's startup build is over
Watching == proc = "watch" /\ pc \in {"loop", "write", "save"}

Dirty(r) == IF proc = "none" THEN r ELSE [r EXCEPT !.clean = FALSE]

\* the bounds allow one more change of the source tree
MayChange ==
    IF Watching THEN budget.notes > 0 /\ Len(fsEvents) < MaxQueue
    ELSE budget.env > 0

Spent ==
    IF Watching THEN [budget EXCEPT !.notes = @ - 1]
    ELSE [budget EXCEPT !.env = @ - 1]

\* fs.watch reports the change of p to the callback, later
Notified(p, kind) ==
    IF Watching THEN Append(fsEvents, [filename |-> p, kind |-> kind])
    ELSE fsEvents

\* an editor creates a source file or saves other bytes to it
WriteSource(p, c) ==
    /\ MayChange
    /\ IF p \in DOMAIN src THEN src[p] # c ELSE TRUE
    /\ src' = Put(src, p, c)
    /\ budget' = Spent
    /\ run' = Dirty(run)
    /\ fsEvents' = Notified(p, "write")
    /\ UNCHANGED <<manifestFile, out, procVars, debounceTimer, fire, burst,
                   last, prev>>
    /\ UNCHANGED outsideController

DeleteSource(p) ==
    /\ MayChange
    /\ p \in DOMAIN src
    /\ src' = Remove(src, p)
    /\ budget' = Spent
    /\ run' = Dirty(run)
    /\ fsEvents' = Notified(p, "delete")
    /\ UNCHANGED <<manifestFile, out, procVars, debounceTimer, fire, burst,
                   last, prev>>
    /\ UNCHANGED outsideController

\* a file is rewritten with the bytes it already has
TouchSource(p) ==
    /\ MayChange
    /\ p \in DOMAIN src
    /\ budget' = Spent
    /\ last' = IF proc = "none" THEN [last EXCEPT !.touched = TRUE] ELSE last
    /\ fsEvents' = Notified(p, "touch")
    /\ UNCHANGED <<src, manifestFile, out, procVars, debounceTimer, fire,
                   burst, run, prev>>
    /\ UNCHANGED outsideController

\* the manifest file is deleted or overwritten from outside
TamperManifest(kind) ==
    /\ budget.env > 0
    /\ manifestFile' = JsonText(kind, <<>>)
    /\ manifestFile' # manifestFile
    /\ budget' = [budget EXCEPT !.env = @ - 1]
    /\ UNCHANGED <<src, out, procVars, watchVars, run, last, prev>>
    /\ UNCHANGED outsideController

\* the process is killed (or the machine stops) between two steps
Kill ==
    /\ budget.env > 0
    /\ proc # "none"
    /\ budget' = [budget EXCEPT !.env = @ - 1]
    /\ proc' = "none"
    /\ pc' = "idle"
    /\ manifest' = <<>>
    /\ cache' = <<>>
    /\ todo' = <<>>
    /\ debounceTimer' = <<>>
    /\ fsEvents' = <<>>
    /\ burst' = NoBurst
    /\ IF proc = "generate"
       THEN /\ last' = Ended(run, "interrupted", manifestFile)
            /\ prev' = last
       ELSE UNCHANGED <<last, prev>>
    /\ fire' = [fire EXCEPT !.running = 0]
    /\ UNCHANGED <<src, manifestFile, out, run>>
    /\ UNCHANGED outsideController

\* ─── runGenerate ───────────────────────────────────────────────────────
CanStart == proc = "none" /\ budget.runs > 0

Started == [budget EXCEPT !.runs = @ - 1]

\* runGenerate returns (or throws) with `outcome`
Returns(r, outcome, file) ==
    /\ proc' = "none"
    /\ pc' = "idle"
    /\ manifest' = <<>>
    /\ cache' = <<>>
    /\ todo' = <<>>
    /\ last' = Ended(r, outcome, file)
    /\ prev' = last

OldManifest == LoadManifest(manifestFile)

NewManifest == [kind |-> "object",
                entries |-> BuildManifest(ScanEndpointFiles(src), src)]

\* lines 866-871
RunGenerateNoFiles ==
    /\ CanStart
    /\ ScanEndpointFiles(src) = <<>>
    /\ budget' = Started
    /\ run' = NewRun(src, manifestFile)
    /\ Returns(run', "no files", manifestFile)
    /\ UNCHANGED <<src, manifestFile, out, watchVars>>
    /\ UNCHANGED outsideController

\* lines 873-876: Object.keys throws inside manifestsMatch
RunGenerateThrows ==
    /\ CanStart
    /\ ScanEndpointFiles(src) # <<>>
    /\ ManifestsMatch(OldManifest, NewManifest) = "TypeError"
    /\ budget' = Started
    /\ run' = NewRun(src, manifestFile)
    /\ Returns(run', "TypeError", manifestFile)
    /\ UNCHANGED <<src, manifestFile, out, watchVars>>
    /\ UNCHANGED outsideController

\* lines 873-879
RunGenerateNothingChanged ==
    /\ CanStart
    /\ ScanEndpointFiles(src) # <<>>
    /\ ManifestsMatch(OldManifest, NewManifest) = "match"
    /\ budget' = Started
    /\ run' = NewRun(src, manifestFile)
    /\ Returns(run', "nothing changed", manifestFile)
    /\ UNCHANGED <<src, manifestFile, out, watchVars>>
    /\ UNCHANGED outsideController

\* what runGenerate does once the manifests differ
AfterMismatch == "parse"

\* lines 873-876, the manifests differ
RunGenerateRebuild ==
    /\ CanStart
    /\ ScanEndpointFiles(src) # <<>>
    /\ ManifestsMatch(OldManifest, NewManifest) = "mismatch"
    /\ budget' = Started
    /\ run' = NewRun(src, manifestFile)
    /\ proc' = "generate"
    /\ pc' = AfterMismatch
    /\ manifest' = NewManifest.entries
    /\ UNCHANGED <<src, manifestFile, out, cache, todo, watchVars, last, prev>>
    /\ UNCHANGED outsideController

\* a runGenerate that saves the manifest before it generates
AfterParseSaveFirst == "save"

\* what follows parseAllEndpoints in runGenerate
AfterParse == "write"

\* line 881, and the entry of generate() on line 882
GenParse ==
    /\ proc = "generate"
    /\ pc = "parse"
    /\ cache' = ParseAllEndpoints(src)
    /\ todo' = Generate(Values(cache'))
    /\ run' = [run EXCEPT !.extracted = Len(ScanEndpointFiles(src))]
    /\ pc' = AfterParse
    /\ UNCHANGED <<src, manifestFile, out, proc, manifest, watchVars, budget,
                   last, prev>>
    /\ UNCHANGED outsideController

\* what follows generate(): saveManifest in runGenerate and in the debounce
\* callback, buildManifest in runWatch's startup
AfterGenerate(at) == IF at = "startup" THEN "hash" ELSE "save"

\* one writeIfChanged call of generate()
WriteArtifact ==
    /\ proc # "none"
    /\ pc \in {"write", "startup"}
    /\ todo # <<>>
    /\ out' = WriteIfChanged(out, Head(todo).path, Head(todo).content)
    /\ todo' = Tail(todo)
    /\ run' = [run EXCEPT
                 !.writes = IF Writes(out, Head(todo).path, Head(todo).content)
                            THEN @ + 1 ELSE @,
                 !.visited = @ \cup {Head(todo).path}]
    /\ pc' = IF todo' = <<>> THEN AfterGenerate(pc) ELSE pc
    /\ UNCHANGED <<src, manifestFile, proc, manifest, cache, watchVars, budget,
                   last, prev>>
    /\ UNCHANGED outsideController

\* line 883, and the return of runGenerate
GenSave ==
    /\ proc = "generate"
    /\ pc = "save"
    /\ manifestFile' = SaveManifest(manifest)
    /\ run' = [run EXCEPT !.mfWrites = @ + 1]
    /\ Returns(run', "rebuilt", manifestFile')
    /\ UNCHANGED <<src, out, watchVars, budget>>
    /\ UNCHANGED outsideController

\* ─── runWatch ──────────────────────────────────────────────────────────
\* lines 894-900: the startup extraction, and the entry of generate()
RunWatchStart ==
    /\ proc = "none"
    /\ budget.sessions > 0
    /\ budget' = [budget EXCEPT !.sessions = @ - 1]
    /\ proc' = "watch"
    /\ pc' = "startup"
    /\ cache' = ParseAllEndpoints(src)
    /\ todo' = Generate(Values(cache'))
    /\ manifest' = <<>>
    /\ run' = [NewRun(src, manifestFile) EXCEPT
                 !.extracted = Len(ScanEndpointFiles(src))]
    /\ UNCHANGED <<src, manifestFile, out, watchVars, last, prev>>
    /\ UNCHANGED outsideController

\* lines 901-911: the startup manifest, and the registration of fs.watch
WatchManifest ==
    /\ proc = "watch"
    /\ pc = "hash"
    /\ manifest' = BuildManifest(ScanEndpointFiles(src), src)
    /\ manifestFile' = SaveManifest(manifest')
    /\ run' = [run EXCEPT !.mfWrites = @ + 1]
    /\ pc' = "loop"
    /\ UNCHANGED <<src, out, proc, cache, todo, watchVars, budget, last, prev>>
    /\ UNCHANGED outsideController

\* an event loop that starts a callback while another is running
LoopReentrant == proc = "watch" /\ pc \in {"loop", "write", "save"}

\* a callback starts only when no other JavaScript is running: the debounce
\* callback is synchronous from its first line to saveManifest
LoopIdle == proc = "watch" /\ pc = "loop"

\* lines 911-915 and 940: the fs.watch callback
OnFsEvent ==
    /\ LoopIdle
    /\ fsEvents # <<>>
    /\ fsEvents' = Tail(fsEvents)
    /\ LET ev == Head(fsEvents)
       IN IF ev.filename.ext # "ts"
          THEN UNCHANGED <<debounceTimer, burst>>
          ELSE /\ debounceTimer' = <<[left |-> DebounceMs,
                                      filename |-> ev.filename]>>
               /\ burst' = IF burst.age < DebounceMs
                           THEN [burst EXCEPT !.n = @ + 1,
                                              !.paths = @ \cup {ev.filename},
                                              !.kinds = @ \cup {ev.kind},
                                              !.age = 0]
                           ELSE [NoBurst EXCEPT !.n = 1,
                                                !.paths = {ev.filename},
                                                !.kinds = {ev.kind},
                                                !.age = 0]
    /\ UNCHANGED <<src, manifestFile, out, procVars, budget, run, last, prev,
                   fire>>
    /\ UNCHANGED outsideController

Min(a, b) == IF a < b THEN a ELSE b

Max(a, b) == IF a > b THEN a ELSE b

\* TickMs pass; a timeout that is due runs before more time passes
Tick ==
    /\ proc = "watch"
    /\ IF debounceTimer # <<>> THEN debounceTimer[1].left > 0
       ELSE burst.age < DebounceMs
    /\ debounceTimer' =
           IF debounceTimer = <<>> THEN <<>>
           ELSE <<[debounceTimer[1] EXCEPT !.left = Max(0, @ - TickMs)]>>
    /\ burst' = [burst EXCEPT !.age = Min(DebounceMs, @ + TickMs)]
    /\ UNCHANGED <<src, manifestFile, out, procVars, fsEvents, budget, run,
                   last, prev, fire>>
    /\ UNCHANGED outsideController

\* a timeout that does not wait
TimerDueAtOnce(timer) == timer.left >= 0

\* setTimeout(..., 300): the timeout has run its delay
TimerDue(timer) == timer.left = 0

\* a comparison that never finds the hash
ManifestEntryNever(m, relPath, hash) == m # m

\* manifest[relPath] === hash
ManifestEntryIs(m, relPath, hash) ==
    IF relPath \in KeySet(m) THEN m[Lookup(m, relPath)].v = hash ELSE FALSE

\* a cache that drops the entry of a file that no longer extracts
CacheDropOnFailure(cch, relPath, parsed) ==
    IF parsed # <<>> THEN MapSet(cch, relPath, parsed[1])
    ELSE MapDelete(cch, relPath)

\* lines 927-931: the cache after parseEndpointFile returned `parsed`
CacheAfterParse(cch, relPath, parsed) ==
    IF parsed # <<>> THEN MapSet(cch, relPath, parsed[1]) ELSE cch

\* a cache that keeps the entry of a deleted file
CacheKeep(cch, relPath) == cch

\* line 934
CacheAfterDelete(cch, relPath) == MapDelete(cch, relPath)

CacheEntry(cch, relPath) ==
    IF relPath \in KeySet(cch) THEN <<cch[Lookup(cch, relPath)].v>> ELSE <<>>

Fired(relPath, case, parsed) ==
    [path |-> relPath, case |-> case, parsed |-> parsed,
     hash |-> IF relPath \in DOMAIN src THEN HashFile(src[relPath])
              ELSE "gone",
     known |-> IF relPath \in KeySet(manifest)
               THEN manifest[Lookup(manifest, relPath)].v ELSE "none",
     before |-> CacheEntry(cache, relPath), burst |-> burst,
     running |-> IF case = "unchanged" THEN fire.running ELSE fire.running + 1,
     done |-> FALSE, cache |-> <<>>, manifest |-> <<>>, mf |-> MissingFile,
     out |-> EmptyDir]

\* lines 915-921: the file is there with the hash the manifest has
TimerFireUnchanged ==
    /\ LoopIdle
    /\ debounceTimer # <<>>
    /\ TimerDue(debounceTimer[1])
    /\ LET relPath == debounceTimer[1].filename
       IN /\ relPath \in DOMAIN src
          /\ ManifestEntryIs(manifest, relPath, HashFile(src[relPath]))
          /\ fire' = Fired(relPath, "unchanged", FALSE)
    /\ debounceTimer' = <<>>
    /\ burst' = [burst EXCEPT !.fires = @ + 1]
    /\ UNCHANGED <<src, manifestFile, out, procVars, fsEvents, budget, run,
                   last, prev>>
    /\ UNCHANGED outsideController

\* lines 915-931 and the entry of generate() on line 938
TimerFireChanged ==
    /\ LoopIdle
    /\ debounceTimer # <<>>
    /\ TimerDue(debounceTimer[1])
    /\ LET relPath == debounceTimer[1].filename
       IN /\ relPath \in DOMAIN src
          /\ ~ManifestEntryIs(manifest, relPath, HashFile(src[relPath]))
          /\ manifest' = MapSet(manifest, relPath, HashFile(src[relPath]))
          /\ LET parsed == ParseEndpointFile(relPath, src[relPath]).ep
             IN /\ cache' = CacheAfterParse(cache, relPath, parsed)
                /\ fire' = Fired(relPath, "changed", parsed # <<>>)
    /\ todo' = Generate(Values(cache'))
    /\ pc' = "write"
    /\ debounceTimer' = <<>>
    /\ burst' = [burst EXCEPT !.fires = @ + 1, !.regens = @ + 1]
    /\ run' = [NewRun(src, manifestFile) EXCEPT !.extracted = 1]
    /\ UNCHANGED <<src, manifestFile, out, proc, fsEvents, budget, last, prev>>
    /\ UNCHANGED outsideController

\* lines 915-919, 932-936 and the entry of generate() on line 938
TimerFireDeleted ==
    /\ LoopIdle
    /\ debounceTimer # <<>>
    /\ TimerDue(debounceTimer[1])
    /\ LET relPath == debounceTimer[1].filename
       IN /\ relPath \notin DOMAIN src
          /\ manifest' = MapDelete(manifest, relPath)
          /\ cache' = CacheAfterDelete(cache, relPath)
          /\ fire' = Fired(relPath, "deleted", FALSE)
    /\ todo' = Generate(Values(cache'))
    /\ pc' = "write"
    /\ debounceTimer' = <<>>
    /\ burst' = [burst EXCEPT !.fires = @ + 1, !.regens = @ + 1]
    /\ run' = NewRun(src, manifestFile)
    /\ UNCHANGED <<src, manifestFile, out, proc, fsEvents, budget, last, prev>>
    /\ UNCHANGED outsideController

\* line 939, and the return of the debounce callback
WatchSave ==
    /\ proc = "watch"
    /\ pc = "save"
    /\ manifestFile' = SaveManifest(manifest)
    /\ run' = [run EXCEPT !.mfWrites = @ + 1]
    /\ pc' = "loop"
    /\ fire' = [fire EXCEPT !.running = @ - 1, !.done = TRUE,
                            !.cache = cache, !.manifest = manifest,
                            !.mf = manifestFile', !.out = out]
    /\ UNCHANGED <<src, out, proc, manifest, cache, todo, debounceTimer,
                   fsEvents, burst, budget, last, prev>>
    /\ UNCHANGED outsideController

Environment ==
    \/ \E p \in Paths : \E c \in ContentsOf(p) : WriteSource(p, c)
    \/ \E p \in Paths : DeleteSource(p)
    \/ \E p \in Paths : TouchSource(p)
    \/ \E kind \in {"missing", "garbage", "null", "scalar"} : TamperManifest(kind)
    \/ Kill

Next ==
    \/ Environment
    \/ RunGenerateNoFiles
    \/ RunGenerateThrows
    \/ RunGenerateNothingChanged
    \/ RunGenerateRebuild
    \/ GenParse
    \/ WriteArtifact
    \/ GenSave

Spec == Init /\ [][Next]_vars

NextWatch ==
    \/ Environment
    \/ RunWatchStart
    \/ WriteArtifact
    \/ WatchManifest
    \/ OnFsEvent
    \/ Tick
    \/ TimerFireUnchanged
    \/ TimerFireChanged
    \/ TimerFireDeleted
    \/ WatchSave

\* a watch session, with fewer changes of the tree before it starts
InitWatch ==
    /\ src \in InitialTrees
    /\ manifestFile = MissingFile
    /\ out = EmptyDir
    /\ proc = "none"
    /\ pc = "idle"
    /\ manifest = <<>>
    /\ cache = <<>>
    /\ todo = <<>>
    /\ debounceTimer = <<>>
    /\ fsEvents = <<>>
    /\ budget = [env |-> MaxWatchEnv, runs |-> 0, notes |-> MaxNotes,
                 sessions |-> MaxSessions]
    /\ run = NewRun(EmptyDir, MissingFile)
    /\ last = NoRun
    /\ prev = NoRun
    /\ fire = NoFire
    /\ burst = NoBurst
    /\ OutsideControllerIdle

SpecWatch == InitWatch /\ [][NextWatch]_vars

\* a watch session in which an editor keeps saving one endpoint file
BurstFile == PList

InitBurst ==
    /\ src \in {tree \in InitialTrees : BurstFile \in DOMAIN tree}
    /\ manifestFile = MissingFile
    /\ out = EmptyDir
    /\ proc = "none"
    /\ pc = "idle"
    /\ manifest = <<>>
    /\ cache = <<>>
    /\ todo = <<>>
    /\ debounceTimer = <<>>
    /\ fsEvents = <<>>
    /\ budget = [env |-> 0, runs |-> 0, notes |-> MaxBurst,
                 sessions |-> MaxSessions]
    /\ run = NewRun(EmptyDir, MissingFile)
    /\ last = NoRun
    /\ prev = NoRun
    /\ fire = NoFire
    /\ burst = NoBurst
    /\ OutsideControllerIdle

NextBurst ==
    \/ \E c \in ContentsOf(BurstFile) : WriteSource(BurstFile, c)
    \/ RunWatchStart
    \/ WriteArtifact
    \/ WatchManifest
    \/ OnFsEvent
    \/ Tick
    \/ TimerFireUnchanged
    \/ TimerFireChanged
    \/ WatchSave

SpecBurst == InitBurst /\ [][NextBurst]_vars

\* ─── Extraction of a batch ─────────────────────────────────────────────
MaxRetriesTexts == 3   \* the last of the numeric texts given to maxRetries

EmptyLit == <<"'", "'">>

BaseProps == CGetA.props

With(props, key, node) ==
    [k \in DOMAIN props \cup {key} |-> IF k = key THEN node ELSE props[k]]

Without(props, key) == [k \in DOMAIN props \ {key} |-> props[k]]

\* ways of writing `name`: a string literal, an empty one, an identifier,
\* an expression, a shorthand property, a method
NameNodes ==
    {Assign(Lit("listTasks")), Assign(EmptyLit), Assign(<<"ENDPOINT_NAME">>),
     Assign(<<"'", "list", "'", "+", "suffix">>), Shorthand, Method}

NumericTexts ==
    {<<Digits[d + 1]>> : d \in 0..MaxRetriesTexts}
    \cup {<<"-", "1">>, <<"2", ".", "5">>, <<"RETRIES">>}

TagsNodes ==
    {Assign(<<"TAGS">>), Shorthand, Method}
    \cup {AssignObject([provides |-> node]) :
             node \in {Assign(<<"[", "'", "Tasks", "'", "]">>), Shorthand, Method}}
    \cup {AssignObject([invalidates |-> node]) :
             node \in {Assign(<<"[", "'", "Tasks", "'", "]">>), Shorthand, Method}}

\* ways of writing one of the other recognized keys
KeyNodes(key) ==
    CASE key = "protected" -> {Assign(<<"false">>), Assign(<<"true">>),
                               Shorthand, Method}
      [] key = "query" -> {Assign(<<"q2">>), Shorthand, Method}
      [] key = "tags" -> TagsNodes
      [] key = "optimistic" -> {Assign(<<"o1">>), Shorthand, Method}
      [] key = "maxRetries" -> {Assign(text) : text \in NumericTexts}
                               \cup {Shorthand, Method}

OtherKeys == {"protected", "query", "tags", "optimistic", "maxRetries"}

NameVariants ==
    {Without(BaseProps, "name")}
    \cup {With(BaseProps, "name", node) : node \in NameNodes}

\* the config objects of the batch's first file: one way of writing `name`,
\* and at most one other recognized key
ConfigObjects ==
    NameVariants
    \cup {With(props, key, node) :
             <<props, key, node>> \in
                 {t \in NameVariants \X OtherKeys \X UNION {KeyNodes(k) : k \in OtherKeys} :
                     t[3] \in KeyNodes(t[2])}}

NotEndpointFiles ==
    {[CGetA EXCEPT !.export = FALSE],
     [CGetA EXCEPT !.calls = <<>>],
     [CGetA EXCEPT !.calls = <<[object |-> "endpoint", method |-> "head"]>>],
     [CGetA EXCEPT !.calls = <<[object |-> "api", method |-> "get"]>>],
     [CGetA EXCEPT !.arg = "Identifier"],
     [CGetA EXCEPT !.arg = "none"]}

EndpointSources ==
    {EndpointFile("get", props) : props \in ConfigObjects} \cup NotEndpointFiles

\* the batch: tasks/create.ts is the file under study, tasks/list.ts is a
\* well-formed endpoint file scanned after it
Batches ==
    {Put(Put(EmptyDir, PCreate, c1), PList, c2) :
        c1 \in EndpointSources, c2 \in {CPost, [CPost EXCEPT !.calls[1].method = "put"]}}

InitExtract ==
    /\ args \in {<<tree>> : tree \in Batches}
    /\ result = <<>>
    /\ OutsideCallIdle

\* lines 881-882 (and 898-899): parseAllEndpoints, then generate on what it
\* returned
ExtractAndGenerate ==
    /\ args # <<>>
    /\ result = <<>>
    /\ LET parsed == ParseAllOutcome(args[1])
       IN result' = <<[parsed |-> parsed,
                       artifacts |-> IF parsed.tag = "throws" THEN <<>>
                                     ELSE Generate(Values(parsed.cache))]>>
    /\ UNCHANGED <<args, outsideCall>>

NextExtract == ExtractAndGenerate

SpecExtract == InitExtract /\ [][NextExtract]_vars

\* ─── Discovery order ───────────────────────────────────────────────────
\* the enumerations readdirSync can give of a directory
Listings(tree) ==
    {list \in [1..Cardinality(DOMAIN tree) -> DOMAIN tree] :
        \A i, j \in DOMAIN list : i # j => list[i] # list[j]}

\* trees of up to three endpoint files, and two with a file that is none
ListedTrees ==
    UNION {[S -> {CGetA, CPost, CNoName}] : S \in SUBSET {PCreate, PList, PUpdate}}
    \cup {Put(Put(EmptyDir, PNotes, CText), PUpdate, CPost),
          Put(Put(Put(EmptyDir, PNotes, CText), PUpdate, CPost), PCreate, CGetA)}

InitListing ==
    /\ args \in UNION {{<<[tree |-> tree, first |-> l1, second |-> l2]>> :
                             l1 \in Listings(tree), l2 \in Listings(tree)} :
                         tree \in ListedTrees}
    /\ result = <<>>
    /\ OutsideCallIdle

\* lines 881-882 on a directory that readdirSync enumerates as `listing`
GenerateFromListing(tree, listing) ==
    Generate(Values(ParseFiles(ScanListing(listing), tree, <<>>)))

\* two one-shot generations of the same tree, enumerated in two orders
GenerateTwice ==
    /\ args # <<>>
    /\ result = <<>>
    /\ result' = <<[first |-> GenerateFromListing(args[1].tree, args[1].first),
                    second |-> GenerateFromListing(args[1].tree, args[1].second)]>>
    /\ UNCHANGED <<args, outsideCall>>

NextListing == GenerateTwice

SpecListing == InitListing /\ [][NextListing]_vars

\* ─── Descriptor order ──────────────────────────────────────────────────
\* the orders in which a list of descriptors can be passed to generate():
\* [...cache.values()] is in the cache's insertion order
Orders(eps) ==
    {[i \in DOMAIN eps |-> eps[perm[i]]] :
        perm \in {f \in [DOMAIN eps -> DOMAIN eps] :
                     \A i, j \in DOMAIN eps : i # j => f[i] # f[j]}}

InitOrder ==
    /\ args \in UNION {{<<[first |-> e1, second |-> e2]>> :
                           e1 \in Orders(Values(ParseAllEndpoints(tree))),
                           e2 \in Orders(Values(ParseAllEndpoints(tree)))} :
                       tree \in ListedTrees}
    /\ result = <<>>
    /\ OutsideCallIdle

\* generate() on the same descriptors in two list orders
GenerateBothOrders ==
    /\ args # <<>>
    /\ result = <<>>
    /\ result' = <<[first |-> Generate(args[1].first),
                    second |-> Generate(args[1].second)]>>
    /\ UNCHANGED <<args, outsideCall>>

NextOrder == GenerateBothOrders

SpecOrder == InitOrder /\ [][NextOrder]_vars

\* ─── Route derivation ──────────────────────────────────────────────────
MaxDepth == 3      \* segments of a relative path

SegmentNames ==
    {"tasks", "users", "profile", "billing", "invoices", "list", "create",
     "update"}

SegmentLists == UNION {[1..n -> SegmentNames] : n \in 1..MaxDepth}

\* the relative path with these segments, as scanEndpointFiles returns it
PathText(segments) == Append(JoinPath(segments), ".ts")

CrudSets == {CrudFilenames, {}, {"list"}, {"invoices", "profile", "tasks"}}

InitRoute ==
    /\ args \in {<<[segments |-> segs, filePath |-> PathText(segs), crud |-> crud]>> :
                    segs \in SegmentLists, crud \in CrudSets}
    /\ result = <<>>
    /\ OutsideCallIdle

\* a call deriveRoutePath(filePath, config)
CallDeriveRoutePath ==
    /\ args # <<>>
    /\ result = <<>>
    /\ result' = <<DeriveRoutePathText(args[1].filePath, args[1].crud)>>
    /\ UNCHANGED <<args, outsideCall>>

NextRoute == CallDeriveRoutePath

SpecRoute == InitRoute /\ [][NextRoute]_vars

\* ─── Artifact generation ───────────────────────────────────────────────
MaxEndpoints == 2  \* descriptors passed to generate()

PInvoices == [dir |-> <<"billing">>, base |-> "invoices", ext |-> "ts"]

\* endpoint files with and without a handler, with and without retries
GeneratedSources ==
    {CGetA, CPost,
     EndpointFile("get", Without(BaseProps, "handler")),
     EndpointFile("post", Without(With(BaseProps, "name", Assign(Lit("createTask"))),
                                  "handler")),
     EndpointFile("get", With(BaseProps, "maxRetries", Assign(<<"3">>))),
     EndpointFile("post", With(Without(BaseProps, "handler"), "maxRetries",
                               Assign(<<"1">>))),
     EndpointFile("get", With(BaseProps, "maxRetries", Assign(<<"0">>)))}

DescriptorsAt(p) == {ParseEndpointFile(p, c).ep[1] : c \in GeneratedSources}

\* lists of descriptors of distinct files
DescriptorLists ==
    UNION {{eps \in [1..n -> UNION {DescriptorsAt(p) : p \in {PCreate, PList, PInvoices}}] :
               \A i, j \in 1..n : i # j => eps[i].filePath # eps[j].filePath} :
           n \in 0..MaxEndpoints}

InitGenerate ==
    /\ args \in {<<eps>> : eps \in DescriptorLists}
    /\ result = <<>>
    /\ OutsideCallIdle

\* a call generate(endpoints, config): the artifacts it hands to
\* writeIfChanged
CallGenerate ==
    /\ args # <<>>
    /\ result = <<>>
    /\ result' = <<Generate(args[1])>>
    /\ UNCHANGED <<args, outsideCall>>

NextGenerate == CallGenerate

SpecGenerate == InitGenerate /\ [][NextGenerate]_vars

\* ─── Rate limiting ─────────────────────────────────────────────────────
StepMs == 500           \* granularity of Date.now()
MaxClock == 4           \* steps of the clock
MaxChecks == 4          \* check() calls on the adapter
PruneIntervalMs == 1000 \* the adapter's constructor option

\* Math.ceil(a / b), b > 0
Ceil(a, b) == (a + b - 1) \div b

\* lines 132-138: every entry filtered by the caller's window, empty entries
\* deleted
PruneAll(w, cutoff) ==
    LET filtered == [k \in DOMAIN w |-> SelectSeq(w[k], LAMBDA t : t > cutoff)]
    IN [k \in {j \in DOMAIN w : filtered[j] # <<>>} |-> filtered[k]]

\* line 130
PruneDue(now, lp) == ~(now - lp < PruneIntervalMs)

MaybePrune(w, lp, now, windowMs) ==
    IF PruneDue(now, lp) THEN [windows |-> PruneAll(w, now - windowMs), lastPrune |-> now]
    ELSE [windows |-> w, lastPrune |-> lp]

\* lines 105-127: what check(key, windowMs, max) returns and what it leaves
\* in the adapter
Check(w, lp, now, key, windowMs, max) ==
    LET pruned == MaybePrune(w, lp, now, windowMs)
        entry == IF key \in DOMAIN pruned.windows THEN pruned.windows[key] ELSE <<>>
        windowStart == now - windowMs
        timestamps == SelectSeq(entry, LAMBDA t : t > windowStart)
        resetAt == Ceil(now + windowMs, 1000)
        allowed == ~(Len(timestamps) >= max)
        pushed == IF allowed THEN Append(timestamps, now) ELSE timestamps
    IN [windows |-> [k \in DOMAIN pruned.windows \cup {key} |->
                        IF k = key THEN pushed ELSE pruned.windows[k]],
        lastPrune |-> pruned.lastPrune,
        result |-> [allowed |-> allowed, limit |-> max,
                    remaining |-> IF allowed THEN max - Len(pushed) ELSE 0,
                    resetAt |-> resetAt]]

\* time passes between two calls
ClockStep ==
    /\ clock < MaxClock * StepMs
    /\ clock' = clock + StepMs
    /\ UNCHANGED <<windows, lastPrune, log, callVars, controllerVars, handlerVars>>

LimitKeys == {"203.0.113.7", "198.51.100.2"}

\* the global configuration and a per-endpoint override
LimitConfigs == {[windowMs |-> 3 * StepMs, max |-> 2], [windowMs |-> StepMs, max |-> 2]}

\* the adapter after a call, with the call in the history
AdapterCheck(key, windowMs, max) ==
    LET c == Check(windows, lastPrune, clock, key, windowMs, max)
    IN /\ windows' = c.windows
       /\ lastPrune' = c.lastPrune
       /\ log' = Append(log, [key |-> key, windowMs |-> windowMs, max |-> max,
                              at |-> clock, allowed |-> c.result.allowed,
                              resetAt |-> c.result.resetAt])

CallCheck ==
    /\ Len(log) < MaxChecks
    /\ \E key \in LimitKeys, cfg \in LimitConfigs :
          AdapterCheck(key, cfg.windowMs, cfg.max)
    /\ UNCHANGED <<clock, callVars, controllerVars, handlerVars>>

InitLimiter == ControllerIdle /\ OutsideControllerIdle

NextLimiter == ClockStep \/ CallCheck

SpecLimiter == InitLimiter /\ [][NextLimiter]_vars

\* ─── Route handler ─────────────────────────────────────────────────────
MaxRequests == 2   \* requests the route handlers receive

\* endpoint.ts, lines 6-10: the definition the factory returns for a config
CreateFactory(config) ==
    [protected |-> IF config.protected = "undefined" THEN TRUE
                   ELSE config.protected = "true",
     request |-> config.request,
     handler |-> config.handler,
     rateLimit |-> config.rateLimit]

\* the per-endpoint override of README "Per-Endpoint Overrides"
Override == [windowMs |-> StepMs, max |-> 1]

EndpointConfigs ==
    [protected : {"undefined", "true", "false"},
     request : BOOLEAN,
     handler : BOOLEAN,
     rateLimit : {<<>>, <<Override>>}]

Defs == {CreateFactory(config) : config \in EndpointConfigs}

\* the options of configureHandler: with or without an auth adapter, with or
\* without a global rate limit (default key function or one keyed by user)
HandlerOptions ==
    [auth : {"none", "adapter"},
     errorHandlers : {<<>>, <<[on |-> {"ValidationError"}, does |-> "returns",
                                status |-> 422]>>},
     rateLimit : {<<>>}
                 \cup {<<[windowMs |-> 2 * StepMs, max |-> 1, keyFn |-> k]>> :
                          k \in {"defaultKeyFn", "byUser"}}]

TheUser == [id |-> "u1"]

ClientIp == "203.0.113.7"

\* lines 64-74, and the keyFn of README "Custom Key Function":
\* user?.id ?? defaultKeyFn(req)
KeyFn(name, u) ==
    IF name = "byUser" /\ u # <<>> THEN u[1].id ELSE ClientIp

\* lines 143-152
JsonResponse(status) == [status |-> status, headers |-> <<>>]

\* what is thrown inside the try block: a ValidationError (lines 61-69), an
\* Error with or without a numeric `status`, or a value that is no Error
ValidationError == [class |-> "ValidationError", status |-> <<>>]

PlainError == [class |-> "Error", status |-> <<>>]

StatusError(n) == [class |-> "Error", status |-> <<n>>]

ThrownValue(status) == [class |-> "value", status |-> status]

\* how the catch block ends: with a Response, or by throwing in its turn, which
\* rejects the promise of the route handler; called: the error handlers run
Responds(r, called) == [rejects |-> FALSE, response |-> <<r>>, called |-> called]

Rejects(called) == [rejects |-> TRUE, response |-> <<>>, called |-> called]

\* new Response(body, { status }) with a body: a RangeError outside 200..599,
\* a TypeError for a null-body status
StatusOk(status) == status \in 200..599 /\ status \notin {204, 205, 304}

\* lines 143-152 inside the catch block
NewJsonResponse(status, called) ==
    IF StatusOk(status) THEN Responds(JsonResponse(status), called)
    ELSE Rejects(called)

\* lines 299-332
Fallback(error, called) ==
    IF error.class = "ValidationError" THEN NewJsonResponse(400, called)
    ELSE IF error.class = "Error" /\ error.status # <<>>
    THEN NewJsonResponse(error.status[1], called)
    ELSE NewJsonResponse(500, called)

\* an error handler answers the errors it knows and returns null for the
\* others
Answers(h, error) == error.class \in h.on

\* lines 292-297, from the i-th error handler on
RECURSIVE RunErrorHandlers(_, _, _)
RunErrorHandlers(errorHandlers, error, i) ==
    IF i > Len(errorHandlers) THEN Fallback(error, 1..(i - 1))
    ELSE IF ~Answers(errorHandlers[i], error)
    THEN RunErrorHandlers(errorHandlers, error, i + 1)
    ELSE IF errorHandlers[i].does = "throws" THEN Rejects(1..i)
    ELSE Responds(JsonResponse(errorHandlers[i].status), 1..i)

\* lines 290-333
CatchBlock(errorHandlers, error) == RunErrorHandlers(errorHandlers, error, 1)

\* the catch block of a handler made by configureHandler(options)
Catch(error) == CatchBlock(options.errorHandlers, error)

Return(r) ==
    /\ response' = <<r>>
    /\ step' = "done"

\* an error thrown inside the try block
Throw(error) ==
    /\ response' = Catch(error).response
    /\ step' = "done"

\* the requests: a method of QUERY_METHODS and another one, search
\* parameters or a body the schema accepts or not, a body that is JSON or not
Requests ==
    {r \in [method : {"GET", "POST"}, valid : BOOLEAN, json : BOOLEAN] :
        /\ r.method = "GET" => r.json
        /\ ~r.json => ~r.valid}

\* schema.parse(data) of a schema that accepts the data: what it returns is
\* the schema's output, not the data
SchemaParse(data) == [output |-> "of schema", input |-> data]

\* lines 85-90
SearchParams(r) == [read |-> "url.searchParams"]

\* line 103
JsonBody(r) == [read |-> "req.json()"]

\* a request that is always read as one with a body
IsQueryMethodNever(method) == method \notin {method}

\* lines 73 and 79-80
IsQueryMethod(method) == method \in {"GET", "DELETE", "HEAD", "OPTIONS"}

\* lines 75-115: what parseAndValidateRequest returns, or that it throws a
\* ValidationError; <<>> is undefined
ParseRequest(r, schema) ==
    IF IsQueryMethod(r.method)
    THEN IF ~schema THEN [throws |-> FALSE, body |-> <<>>, query |-> <<>>]
         ELSE IF r.valid
         THEN [throws |-> FALSE, body |-> <<>>,
               query |-> <<SchemaParse(SearchParams(r))>>]
         ELSE [throws |-> TRUE, body |-> <<>>, query |-> <<>>]
    ELSE IF ~schema THEN [throws |-> FALSE, body |-> <<>>, query |-> <<>>]
         ELSE IF ~r.json THEN [throws |-> TRUE, body |-> <<>>, query |-> <<>>]
         ELSE IF r.valid
         THEN [throws |-> FALSE, body |-> <<SchemaParse(JsonBody(r))>>,
               query |-> <<>>]
         ELSE [throws |-> TRUE, body |-> <<>>, query |-> <<>>]

\* the route handler is called with a request
Receive ==
    /\ step \in {"idle", "done"}
    /\ served < MaxRequests
    /\ \E def \in Defs, r \in Requests :
          req' = <<[def |-> def, method |-> r.method, valid |-> r.valid,
                    json |-> r.json]>>
    /\ input' = <<>>
    /\ step' = "parse"
    /\ user' = <<>>
    /\ rl' = <<>>
    /\ response' = <<>>
    /\ trace' = <<>>
    /\ served' = served + 1
    /\ UNCHANGED <<options, limiterVars, callVars, controllerVars>>

\* lines 242-245 (75-115): no schema accepts everything, a schema throws a
\* ValidationError for a request it does not accept
ParseAndValidateRequest ==
    /\ step = "parse"
    /\ LET got == ParseRequest(req[1], req[1].def.request)
       IN /\ trace' = Append(trace, [op |-> "parse", throws |-> got.throws])
          /\ IF got.throws
             THEN Throw(ValidationError) /\ UNCHANGED input
             ELSE /\ input' = <<[body |-> got.body, query |-> got.query]>>
                  /\ step' = "auth"
                  /\ UNCHANGED response
    /\ UNCHANGED <<options, req, user, rl, served, limiterVars, callVars,
                   controllerVars>>

\* lines 248-260
ResolveUser ==
    /\ step = "auth"
    /\ IF ~req[1].def.protected
       THEN step' = "rateLimit" /\ UNCHANGED <<user, response, trace>>
       ELSE IF options.auth = "none"
       THEN Return(JsonResponse(500)) /\ UNCHANGED <<user, trace>>
       ELSE \E got \in {"null", "user", "throws"} :
               /\ trace' = Append(trace, [op |-> "getUser", got |-> got])
               /\ CASE got = "null" -> Return(JsonResponse(401)) /\ UNCHANGED user
                    [] got = "user" ->
                          /\ user' = <<TheUser>>
                          /\ step' = "rateLimit"
                          /\ UNCHANGED response
                    [] got = "throws" ->
                          Throw(PlainError) /\ UNCHANGED user
    /\ UNCHANGED <<options, req, input, rl, served, limiterVars, callVars,
                   controllerVars>>

\* lines 263-269 and 170-178: the window of the override before the global
\* one, the key function of the global configuration, one check
ApplyRateLimit ==
    /\ step = "rateLimit"
    /\ IF options.rateLimit = <<>> /\ req[1].def.rateLimit = <<>>
       THEN /\ step' = "handler"
            /\ UNCHANGED <<rl, trace, limiterVars>>
       ELSE LET override == req[1].def.rateLimit
                global == options.rateLimit
                windowMs == IF override # <<>> THEN override[1].windowMs
                            ELSE global[1].windowMs
                max == IF override # <<>> THEN override[1].max ELSE global[1].max
                keyFn == IF global # <<>> THEN global[1].keyFn ELSE "defaultKeyFn"
                key == KeyFn(keyFn, user)
            IN /\ AdapterCheck(key, windowMs, max)
               /\ rl' = <<Check(windows, lastPrune, clock, key, windowMs, max).result>>
               /\ trace' = trace \o <<[op |-> "keyFn", user |-> user],
                                      [op |-> "check", key |-> key]>>
               /\ step' = "checked"
               /\ UNCHANGED clock
    /\ UNCHANGED <<options, req, input, user, response, served, callVars, controllerVars>>

\* a result that lets every request through
LimitedNever(r) == r.allowed /\ ~r.allowed

\* line 180
Limited(r) == ~r.allowed

\* Math.max(1, retryAfter) without the 1
RetryAfterRaw(resetAt, now) == Ceil(resetAt * 1000 - now, 1000)

\* lines 181-188
RetryAfter(resetAt, now) == Max(1, Ceil(resetAt * 1000 - now, 1000))

\* lines 180-196 and 270
RateLimitResponse ==
    /\ step = "checked"
    /\ IF Limited(rl[1])
       THEN Return([status |-> 429,
                    headers |-> [RetryAfter |-> RetryAfter(rl[1].resetAt, clock),
                                 Limit |-> rl[1].limit,
                                 Remaining |-> 0,
                                 Reset |-> rl[1].resetAt]])
       ELSE step' = "handler" /\ UNCHANGED response
    /\ UNCHANGED <<options, req, input, user, rl, trace, served, limiterVars, callVars,
                   controllerVars>>

\* lines 274-289
CallHandler ==
    /\ step = "handler"
    /\ IF ~req[1].def.handler
       THEN Return(JsonResponse(501)) /\ UNCHANGED trace
       ELSE \E does \in {"returns", "throws", "throws404"} :
               /\ trace' = Append(trace, [op |-> "handler", user |-> user,
                                          body |-> input[1].body,
                                          query |-> input[1].query])
               /\ CASE does = "returns" -> Return(JsonResponse(200))
                    [] does = "throws" -> Throw(PlainError)
                    [] does = "throws404" ->
                          Throw(StatusError(404))
    /\ UNCHANGED <<options, req, input, user, rl, served, limiterVars, callVars,
                   controllerVars>>

\* time passes between two requests and while the handler awaits the
\* adapter; Date.now() is read by check() and after it (line 182) only
HandlerClockStep ==
    /\ step \in {"idle", "done", "checked"}
    /\ ClockStep

InitHandler ==
    /\ ControllerIdle
    /\ args = <<>>
    /\ result = <<>>
    /\ LimiterIdle
    /\ options \in HandlerOptions
    /\ HandlerIdle

NextHandler ==
    \/ Receive
    \/ ParseAndValidateRequest
    \/ ResolveUser
    \/ ApplyRateLimit
    \/ RateLimitResponse
    \/ CallHandler
    \/ HandlerClockStep

SpecHandler == InitHandler /\ [][NextHandler]_vars

\* ─── Error mapping ─────────────────────────────────────────────────────
MaxErrorHandlers == 2  \* error handlers configured

\* the errors a request can throw: statuses a Response takes and statuses it
\* does not take (0 of a failed upstream call, 204, 600)
ThrownErrors ==
    {ValidationError, PlainError, ThrownValue(<<>>), ThrownValue(<<404>>)}
    \cup {StatusError(n) : n \in {404, 0, 204, 600}}

\* error handlers: one for validation errors, one for errors, one for
\* everything, one for nothing; answering 503 or 422, or throwing
ErrorHandlerSet ==
    [on : {{}, {"ValidationError"}, {"Error"}, {"ValidationError", "Error", "value"}},
     does : {"returns"}, status : {503, 422}]
    \cup [on : {{"Error"}}, does : {"throws"}, status : {503}]

ErrorHandlerLists ==
    UNION {[1..n -> ErrorHandlerSet] : n \in 0..MaxErrorHandlers}

InitCatch ==
    /\ args \in {<<[errorHandlers |-> hs, error |-> e]>> :
                    hs \in ErrorHandlerLists, e \in ThrownErrors}
    /\ result = <<>>
    /\ OutsideCallIdle

\* request processing throws `error` in a handler configured with
\* `errorHandlers`
CallCatch ==
    /\ args # <<>>
    /\ result = <<>>
    /\ result' = <<CatchBlock(args[1].errorHandlers, args[1].error)>>
    /\ UNCHANGED <<args, outsideCall>>

NextCatch == CallCatch

SpecCatch == InitCatch /\ [][NextCatch]_vars

\* ─── Route grouping of a list ──────────────────────────────────────────
MaxGrouped == 3  \* descriptors passed to groupEndpointsByRoute

GroupedLists ==
    UNION {{eps \in [1..n -> UNION {DescriptorsAt(p) : p \in {PCreate, PList, PInvoices}}] :
               \A i, j \in 1..n : i # j => eps[i].filePath # eps[j].filePath} :
           n \in 0..MaxGrouped}

InitGroup ==
    /\ args \in {<<eps>> : eps \in GroupedLists}
    /\ result = <<>>
    /\ OutsideCallIdle

\* a call groupEndpointsByRoute(endpoints, config), routes configured
CallGroupEndpointsByRoute ==
    /\ args # <<>>
    /\ result = <<>>
    /\ result' = <<GroupEndpointsByRoute(args[1])>>
    /\ UNCHANGED <<args, outsideCall>>

NextGroup == CallGroupEndpointsByRoute

SpecGroup == InitGroup /\ [][NextGroup]_vars

\* ─── Tag types ─────────────────────────────────────────────────────────
MaxSourceLen == 5  \* characters of a captured tags source

\* the characters of a source text: a quote, letters of both cases, a digit,
\* an underscore, a separator; in the order of their code units
CharOrder == <<"\"", ",", "1", "T", "_", "a">>

Chars == {CharOrder[i] : i \in DOMAIN CharOrder}

CharRank(c) == CHOOSE i \in DOMAIN CharOrder : CharOrder[i] = c

\* \w
IsWordChar(c) == c \in {"1", "T", "_", "a"}

\* ["']
IsQuote(c) == c = "\""

\* String.prototype.toUpperCase on one character
ToUpperCase(c) == IF c = "a" THEN "A" ELSE c

\* the last index of the run of word characters that starts at i (i - 1 when
\* there is none)
RECURSIVE WordEnd(_, _)
WordEnd(source, i) ==
    IF i <= Len(source) /\ IsWordChar(source[i]) THEN WordEnd(source, i + 1)
    ELSE i - 1

\* line 635: the first groups of the matches of /["'](\w+)["']/g from
\* position i on, in order
RECURSIVE MatchAll(_, _)
MatchAll(source, i) ==
    IF i > Len(source) THEN <<>>
    ELSE LET j == WordEnd(source, i + 1)
         IN IF /\ IsQuote(source[i])
               /\ j > i
               /\ j < Len(source)
               /\ IsQuote(source[j + 1])
            THEN <<SubSeq(source, i + 1, j)>> \o MatchAll(source, j + 2)
            ELSE MatchAll(source, i + 1)

\* line 637
KeepsTag(word) == word[1] = ToUpperCase(word[1])

\* lines 633-641: the set after extractTagTypes(source, tags); a null source
\* is <<>>
ExtractTagTypes(source, tags) ==
    IF source = <<>> THEN tags
    ELSE LET matches == MatchAll(source, 1)
         IN tags \cup {matches[k] : k \in {n \in DOMAIN matches : KeepsTag(matches[n])}}

\* a < b for strings, by code units
RECURSIVE StringLess(_, _)
StringLess(a, b) ==
    IF b = <<>> THEN FALSE
    ELSE IF a = <<>> THEN TRUE
    ELSE IF a[1] # b[1] THEN CharRank(a[1]) < CharRank(b[1])
    ELSE StringLess(Tail(a), Tail(b))

\* line 426: [...tagTypes].sort()
RECURSIVE SortTags(_)
SortTags(tags) ==
    IF tags = {} THEN <<>>
    ELSE LET least == CHOOSE t \in tags : \A u \in tags \ {t} : StringLess(t, u)
         IN <<least>> \o SortTags(tags \ {least})

\* lines 372-377 and 426-429: the tagTypes of an api.ts with one endpoint
TagTypesList(provides, invalidates) ==
    SortTags(ExtractTagTypes(invalidates, ExtractTagTypes(provides, {})))

RECURSIVE TextsUpTo(_)
TextsUpTo(n) ==
    IF n = 0 THEN {<<>>}
    ELSE TextsUpTo(n - 1)
         \cup {Append(t, c) : t \in {u \in TextsUpTo(n - 1) : Len(u) = n - 1}, c \in Chars}

\* invalidates: none, a tag the provides text can hold too, another one
InvalidatesTexts == {<<>>, <<"\"", "T", "\"">>, <<"\"", "T", "T", "\"">>}

InitTags ==
    /\ args \in {<<[provides |-> t, invalidates |-> u]>> :
                    t \in TextsUpTo(MaxSourceLen), u \in InvalidatesTexts}
    /\ result = <<>>
    /\ OutsideCallIdle

\* the tagTypes line of generateApiTs for an endpoint with these tags sources
CallExtractTagTypes ==
    /\ args # <<>>
    /\ result = <<>>
    /\ result' = <<TagTypesList(args[1].provides, args[1].invalidates)>>
    /\ UNCHANGED <<args, outsideCall>>

NextTags == CallExtractTagTypes

SpecTags == InitTags /\ [][NextTags]_vars

\* ─── Optimistic fragments of a descriptor ──────────────────────────────
\* ways of writing each part of an optimistic update: well formed, not of
\* the expected form, left out
TargetParts == {<<"target:", "'", "getTasks", "'">>, <<"target:", "getTasks">>, <<>>}

ArgsParts == {<<"args:", "(p)", "=>", "p.id">>, <<"args:", "undefined">>, <<>>}

UpdateParts ==
    {<<"update:", "(draft, p)", "=>", "{", "draft.done = true", "}">>,
     <<"update:", "patchTask">>, <<>>}

ConditionParts == {<<"condition:", "(p)", "=>", "p.done">>, <<>>}

WellFormed(part) == Len(part) > 2

RECURSIVE JoinParts(_)
JoinParts(parts) ==
    IF parts = <<>> THEN <<>>
    ELSE IF Head(parts) = <<>> THEN JoinParts(Tail(parts))
    ELSE IF JoinParts(Tail(parts)) = <<>> THEN Head(parts)
    ELSE Head(parts) \o <<",">> \o JoinParts(Tail(parts))

ObjectText(parts) == <<"{">> \o JoinParts(parts) \o <<"}">>

SingleSources ==
    {ObjectText(<<t, a, u>>) : t \in TargetParts, a \in ArgsParts, u \in UpdateParts}

\* elements of an updates array: at most one part of them is not well
\* formed, and a condition goes with well-formed parts only
UpdateElements ==
    {ObjectText(<<el.t, el.c, el.a, el.u>>) :
        el \in {e \in [t : TargetParts, c : ConditionParts, a : ArgsParts,
                       u : UpdateParts] :
                   /\ Cardinality({k \in {"t", "a", "u"} : ~WellFormed(e[k])}) <= 1
                   /\ (e.c # <<>> => \A k \in {"t", "a", "u"} : WellFormed(e[k]))}}

UpdateLists == UNION {[1..n -> UpdateElements] : n \in 0..MaxUpdates}

\* the multi shape, its array written out, and two with no array literal
MultiSources ==
    {<<"{", "updates:", "[">> \o JoinParts(list) \o <<"]", "}">> : list \in UpdateLists}
    \cup {<<"{", "updates:", "makeUpdates()", "}">>,
          <<"{", "updates:", "[">> \o ObjectText(<<<<"target:", "'", "getTasks", "'">>>>)}

OptimisticSources == SingleSources \cup MultiSources \cup {<<"o1">>}

InitOptimistic ==
    /\ args \in {<<EndpointFile("post", With(CPost.props, "optimistic", Assign(text)))>> :
                    text \in OptimisticSources}
    /\ result = <<>>
    /\ OutsideCallIdle

\* the endpoint file is extracted and api.ts generated from its descriptor
CallGenerateOptimistic ==
    /\ args # <<>>
    /\ result = <<>>
    /\ result' = <<GenerateApiTs(ParseEndpointFile(PCreate, args[1]).ep)>>
    /\ UNCHANGED <<args, outsideCall>>

NextOptimistic == CallGenerateOptimistic

SpecOptimistic == InitOptimistic /\ [][NextOptimistic]_vars

\* ─── One-shot generation: properties ───────────────────────────────────
\* the endpoint source files of a tree, with their bytes
EndpointFiles(tree) == [f \in {g \in DOMAIN tree : g.ext = "ts"} |-> tree[f]]

\* the paths whose entry differs between two manifest files
EntriesOf(file) == IF file.kind = "object" THEN file.entries ELSE <<>>

DiffEntries(f1, f2) ==
    LET m1 == EntriesOf(f1)
        m2 == EntriesOf(f2)
    IN {k \in KeySet(m1) \cup KeySet(m2) :
          IF k \in KeySet(m1) /\ k \in KeySet(m2)
          THEN m1[Lookup(m1, k)].v # m2[Lookup(m2, k)].v
          ELSE TRUE}

\* the tracked files whose bytes differ between two trees with the same files
ChangedFiles(t1, t2) == {f \in DOMAIN t1 : t1[f] # t2[f]}

SameFileSet(t1, t2) == DOMAIN EndpointFiles(t1) = DOMAIN EndpointFiles(t2)

\* the last two invocations ran one after the other on the same manifest file
Consecutive == prev.outcome # "none" /\ last.mfBefore = prev.mfAfter

ExpectedArtifacts(tree) == Generate(Values(ParseAllEndpoints(tree)))

ArtifactPaths(tree) ==
    {ExpectedArtifacts(tree)[i].path : i \in 1..Len(ExpectedArtifacts(tree))}

\* C1: a runGenerate that follows a completed rebuild, with the endpoint
\* source files as that rebuild scanned them and the manifest file as it
\* saved it, writes no artifact and leaves the manifest file as it is.
C1_Idempotent ==
    (/\ Consecutive
     /\ prev.outcome = "rebuilt"
     /\ EndpointFiles(last.files) = EndpointFiles(prev.files))
    => /\ last.writes = 0
       /\ last.mfWrites = 0
       /\ last.mfAfter = last.mfBefore

C1_Witness ==
    /\ Consecutive
    /\ prev.outcome = "rebuilt"
    /\ prev.writes > 0
    /\ EndpointFiles(last.files) = EndpointFiles(prev.files)
    /\ last.outcome = "nothing changed"

\* C2: with the manifest persisted by an earlier runGenerate that returned
\* "rebuilt" or "nothing changed": when exactly one tracked file has other
\* bytes than that run scanned (same file set), the next runGenerate takes
\* the rebuild branch and the manifest it persists differs from the old one
\* in that file's entry only; when no tracked file has other bytes, the next
\* runGenerate writes no artifact and no manifest.
C2_ChangeDetection ==
    (/\ Consecutive
     /\ prev.outcome \in {"rebuilt", "nothing changed"}
     /\ SameFileSet(prev.files, last.files))
    => LET changed == ChangedFiles(EndpointFiles(prev.files),
                                   EndpointFiles(last.files))
       IN /\ Cardinality(changed) = 1 =>
                /\ last.outcome \in {"rebuilt", "interrupted"}
                /\ last.outcome = "rebuilt" =>
                       DiffEntries(last.mfBefore, last.mfAfter) = changed
          /\ changed = {} =>
                /\ last.outcome = "nothing changed"
                /\ last.writes = 0
                /\ last.mfWrites = 0

C2_Witness ==
    /\ Consecutive
    /\ prev.outcome = "rebuilt"
    /\ SameFileSet(prev.files, last.files)
    /\ Cardinality(DOMAIN EndpointFiles(last.files)) = 2
    /\ Cardinality(ChangedFiles(EndpointFiles(prev.files),
                                EndpointFiles(last.files))) = 1
    /\ last.outcome = "rebuilt"

C2_WitnessTouch ==
    /\ Consecutive
    /\ prev.outcome = "rebuilt"
    /\ prev.touched
    /\ EndpointFiles(last.files) = EndpointFiles(prev.files)
    /\ last.outcome = "nothing changed"

\* C3: runGenerate writes the manifest file only as its last step, after
\* every writeIfChanged call of generate(): an interrupted rebuild has not
\* written it, a completed one has made every call.  And after an
\* interrupted rebuild, with the manifest file and the endpoint source files
\* as that rebuild found them, the next runGenerate takes the rebuild branch
\* again and, when it returns, every artifact of the full descriptor set is
\* on disk with its generated content.
C3_SaveLast ==
    /\ last.outcome = "interrupted" => last.mfWrites = 0
    /\ proc = "generate" => run.mfWrites = 0
    /\ (last.outcome = "rebuilt" /\ last.clean) =>
           last.visited = ArtifactPaths(last.files)
    /\ (/\ prev.outcome = "interrupted"
        /\ last.mfBefore = prev.mfBefore
        /\ EndpointFiles(last.files) = EndpointFiles(prev.files))
       => /\ last.outcome \in {"rebuilt", "interrupted"}
          /\ (last.outcome = "rebuilt" /\ last.clean /\ proc = "none") =>
                 \A i \in 1..Len(ExpectedArtifacts(last.files)) :
                    LET a == ExpectedArtifacts(last.files)[i]
                    IN a.path \in DOMAIN out /\ out[a.path] = a.content

C3_Witness ==
    /\ prev.outcome = "interrupted"
    /\ prev.visited # {}
    /\ prev.visited # ArtifactPaths(prev.files)
    /\ last.mfBefore = prev.mfBefore
    /\ EndpointFiles(last.files) = EndpointFiles(prev.files)
    /\ last.outcome = "rebuilt"
    /\ last.clean
    /\ last.writes > 0
    /\ proc = "none"

\* C4: every runGenerate invocation that ends by itself ends "no files",
\* "nothing changed" or "rebuilt"; in the first two it extracts no file,
\* writes no artifact and does not write the manifest.
C4_ThreeOutcomes ==
    last.outcome \notin {"none", "interrupted"} =>
        /\ last.outcome \in {"no files", "nothing changed", "rebuilt"}
        /\ last.outcome \in {"no files", "nothing changed"} =>
               /\ last.extracted = 0
               /\ last.writes = 0
               /\ last.mfWrites = 0

\* the second half of C4 alone: what the early returns leave untouched
C4_EarlyReturnFrame ==
    /\ last.outcome = "no files" <=>
           (last.outcome # "none" /\ ScanEndpointFiles(last.files) = <<>>)
    /\ last.outcome \in {"no files", "nothing changed", "TypeError"} =>
           /\ last.extracted = 0
           /\ last.writes = 0
           /\ last.mfWrites = 0
           /\ last.visited = {}

\* C5: with at least one endpoint file, a manifest file that is missing,
\* unreadable or holds anything but a manifest object (null included) is
\* read as an empty map, and runGenerate takes the rebuild branch.
C5_CorruptManifestRebuilds ==
    (/\ last.outcome # "none"
     /\ last.mfBefore.kind \in {"missing", "garbage", "null", "scalar"}
     /\ ScanEndpointFiles(last.files) # <<>>)
    => last.outcome \in {"rebuilt", "interrupted"}

\* what holds of C5: every such manifest file but the JSON text null
C5_AllButNull ==
    (/\ last.outcome # "none"
     /\ last.mfBefore.kind \in {"missing", "garbage", "scalar"}
     /\ ScanEndpointFiles(last.files) # <<>>)
    => last.outcome \in {"rebuilt", "interrupted"}

\* ─── Watch mode: properties ────────────────────────────────────────────
Regenerating == proc = "watch" /\ pc \in {"write", "save"}

\* the fired callback found the file with the hash the manifest had for it
SameHash == fire.hash = fire.known

\* C6 (as stated): when the timer fires after a burst of two or more
\* content-modifying notifications for one source file, each less than the
\* debounce duration after the previous one, one debounce duration has passed since the last
\* of them and exactly one regeneration runs.
C6_ExactlyOneRegeneration ==
    (/\ fire.case # "none"
     /\ fire.burst.n >= 2
     /\ fire.burst.kinds = {"write"}
     /\ fire.burst.paths = {fire.path})
    => /\ fire.burst.age = DebounceMs
       /\ fire.burst.fires = 0
       /\ fire.case = "changed"

\* C6 (amended): the notifications of a burst coalesce into one run of the
\* timer callback, one debounce duration after the last of them; that run
\* regenerates at most once: it does when the file is gone or its hash is
\* not the one the manifest holds, and it does not otherwise.
C6_Coalesced ==
    /\ burst.fires <= 1
    /\ burst.regens <= burst.fires
    /\ fire.case # "none" =>
         /\ fire.burst.age = DebounceMs
         /\ fire.burst.fires = 0
         /\ fire.case = "unchanged" <=> SameHash

C6_Witness ==
    /\ fire.case = "changed"
    /\ fire.done
    /\ fire.burst.n >= 5
    /\ fire.burst.kinds = {"write"}
    /\ fire.burst.paths = {fire.path}
    /\ burst.regens = 1

\* C7: when the timer fires for a file whose bytes changed and whose
\* extraction fails, the descriptor the cache held for that path is still in
\* the cache when the regeneration is over, and the api.ts and the route file
\* that regeneration leaves on disk are generated from a descriptor set that
\* holds it.
C7_KeepsLastGood ==
    (/\ fire.done
     /\ fire.case = "changed"
     /\ ~fire.parsed
     /\ fire.before # <<>>)
    => /\ CacheEntry(fire.cache, fire.path) = fire.before
       /\ ApiPath \in DOMAIN fire.out
       /\ fire.out[ApiPath] = GenerateApiTs(Values(fire.cache))
       /\ \E i \in DOMAIN fire.out[ApiPath].defs :
             fire.out[ApiPath].defs[i] = GenerateEndpointDef(fire.before[1])
       /\ LET routes == RouteArtifacts(GroupEndpointsByRoute(<<fire.before[1]>>))
          IN \A i \in DOMAIN routes :
                /\ routes[i].path \in DOMAIN fire.out
                /\ \E j \in DOMAIN fire.out[routes[i].path].exports :
                      fire.out[routes[i].path].exports[j].handler
                          = fire.before[1].name

C7_Witness ==
    /\ fire.done
    /\ fire.case = "changed"
    /\ ~fire.parsed
    /\ fire.before # <<>>
    /\ fire.before[1].hasHandler
    /\ Len(fire.cache) = 2

\* C8: when the timer fires for a path whose file is gone, then once the
\* regeneration is over the path is in neither the manifest nor the cache,
\* the manifest file holds that manifest, every artifact generated from the
\* remaining cache is on disk, and no descriptor they are generated from is
\* that file's.
C8_DeletionRemoves ==
    (fire.done /\ fire.case = "deleted")
    => /\ fire.path \notin KeySet(fire.manifest)
       /\ fire.path \notin KeySet(fire.cache)
       /\ fire.mf = SaveManifest(fire.manifest)
       /\ LET eps == Values(fire.cache)
              arts == Generate(eps)
          IN /\ \A i \in DOMAIN eps : eps[i].filePath # fire.path
             /\ \A i \in DOMAIN arts :
                   /\ arts[i].path \in DOMAIN fire.out
                   /\ fire.out[arts[i].path] = arts[i].content

C8_Witness ==
    /\ fire.done
    /\ fire.case = "deleted"
    /\ fire.before # <<>>
    /\ fire.known # "none"
    /\ fire.cache # <<>>

\* C9: a run of the timer callback for an existing file whose hash is the
\* one the manifest holds changes nothing: no extraction, the cache and the
\* in-memory manifest as they were, no artifact written, the manifest file
\* not written, no regeneration started.
C9_UnchangedIsNoOp ==
    [][(/\ proc = "watch"
        /\ proc' = "watch"
        /\ debounceTimer # <<>>
        /\ debounceTimer' = <<>>
        /\ debounceTimer[1].filename \in DOMAIN src
        /\ \E i \in DOMAIN manifest :
              /\ manifest[i].k = debounceTimer[1].filename
              /\ manifest[i].v = HashFile(src[debounceTimer[1].filename]))
       => /\ cache' = cache
          /\ manifest' = manifest
          /\ out' = out
          /\ manifestFile' = manifestFile
          /\ todo' = todo
          /\ run' = run
          /\ pc' = pc]_vars

C9_Witness ==
    /\ fire.case = "unchanged"
    /\ fire.burst.kinds = {"touch"}
    /\ proc = "watch"
    /\ pc = "loop"
    /\ debounceTimer = <<>>

\* C10: at most one regeneration is in progress at any time, and while one
\* is in progress no callback runs: the timer is not touched, no waiting
\* notification is taken from the queue, and the cache and the manifest the
\* regeneration works from stay as they are.
C10_Serialized ==
    /\ [](fire.running <= 1)
    /\ [][(Regenerating /\ proc' = "watch")
          => /\ debounceTimer' = debounceTimer
             /\ Len(fsEvents') >= Len(fsEvents)
             /\ SubSeq(fsEvents', 1, Len(fsEvents)) = fsEvents
             /\ cache' = cache
             /\ manifest' = manifest]_vars

C10_Witness ==
    /\ Regenerating
    /\ fire.running = 1
    /\ fsEvents # <<>>
    /\ Head(fsEvents).filename.ext = "ts"

\* ─── Extraction: properties ────────────────────────────────────────────
\* the file under study, and what the batch's call made of it
Studied == args[1][PCreate]

Returned == result # <<>> /\ result[1].parsed.tag = "returns"

\* `name` is written as a property whose initializer is a string literal
\* with something in it
NameIsLiteral(c) ==
    /\ "name" \in DOMAIN c.props
    /\ ~NotAssignment(c.props["name"])
    /\ LET text == c.props["name"].init
       IN /\ Len(text) = 3
          /\ text[1] \in QuoteChars
          /\ text[3] = text[1]

\* every recognized key that is written is written `key: initializer`
AllAssignments(c) ==
    /\ \A key \in DOMAIN c.props : ~NotAssignment(c.props[key])
    /\ \A key \in DOMAIN TagsProps(c.props) :
          ~NotAssignment(TagsProps(c.props)[key])

\* `name` is missing, or a property with another initializer
NameIsNoLiteral(c) ==
    /\ c.arg = "ObjectLiteralExpression"
    /\ AllAssignments(c)
    /\ ~NameIsLiteral(c)

\* the artifact at a path among those generate() was given to write
ArtifactAt(arts, path) ==
    arts[CHOOSE i \in DOMAIN arts : arts[i].path = path].content

\* the file has left a trace in what was generated: a descriptor, an
\* operation of api.ts beside the other file's, an import of a route file
Contributes(file, res) ==
    \/ file \in KeySet(res.parsed.cache)
    \/ Len(ArtifactAt(res.artifacts, ApiPath).defs) > 1
    \/ \E i \in DOMAIN res.artifacts :
          /\ res.artifacts[i].content.kind = "route.ts"
          /\ \E j \in DOMAIN res.artifacts[i].content.imports :
                res.artifacts[i].content.imports[j].from
                    = EndpointsImportRoot \o PathParts(file)

\* C11: a file whose config object has no `name` given as a string literal
\* (missing, empty, or an initializer that is no literal) yields no
\* descriptor: nothing of it is in api.ts or in a route group, and the other
\* file of the batch is generated.
C11_NoNameLiteralIsSkipped ==
    (result # <<>> /\ NameIsNoLiteral(Studied))
    => /\ Returned
       /\ ~Contributes(PCreate, result[1])
       /\ PList \in KeySet(result[1].parsed.cache)
       /\ PCreate \in {result[1].parsed.warned[i] :
                          i \in DOMAIN result[1].parsed.warned}

\* what holds of C11: a missing `name` and an empty string literal
C11_MissingOrEmptyIsSkipped ==
    (/\ result # <<>>
     /\ NameIsNoLiteral(Studied)
     /\ StripQuotes(InitOf(Studied.props, "name")) = <<>>)
    => /\ Returned
       /\ ~Contributes(PCreate, result[1])
       /\ PList \in KeySet(result[1].parsed.cache)

\* C12: whatever the shape of the recognized keys of a file's config
\* object, parseAllEndpoints returns, with a descriptor or a warning for that
\* file and the descriptor of the file after it.
C12_NeverThrows ==
    result # <<>>
    => /\ Returned
       /\ PCreate \in KeySet(result[1].parsed.cache)
              \cup {result[1].parsed.warned[i] : i \in DOMAIN result[1].parsed.warned}
       /\ PList \in KeySet(result[1].parsed.cache)

\* what holds of C12: every recognized key that is written is written as a
\* property assignment
C12_AssignmentsNeverThrow ==
    (result # <<>> /\ AllAssignments(Studied))
    => /\ Returned
       /\ PList \in KeySet(result[1].parsed.cache)

\* ─── Discovery order: properties ───────────────────────────────────────
\* C13: two one-shot generations of the same files with the same contents,
\* enumerated by the directory in any two orders, make the same
\* writeIfChanged calls with the same content: api.ts, store.ts,
\* invalidation.ts and every route.ts are identical.
C13_DiscoveryOrder ==
    result # <<>> => result[1].first = result[1].second

C13_Witness ==
    /\ result # <<>>
    /\ args[1].first # args[1].second
    /\ SelectSeq(args[1].first, LAMBDA f : f.ext = "ts")
           # SelectSeq(args[1].second, LAMBDA f : f.ext = "ts")
    /\ Len(ArtifactAt(result[1].first, ApiPath).defs) >= 2
    /\ Len(result[1].first) >= 4

\* ─── Descriptor order: properties ──────────────────────────────────────
ContentsByPath(arts) == {<<arts[i].path, arts[i].content>> : i \in DOMAIN arts}

\* C14: generate() on the same descriptors in any two list orders produces
\* the same content for every artifact, so that a second generation in
\* another order would have writeIfChanged touch no file.
C14_OrderIndependent ==
    result # <<>> => ContentsByPath(result[1].first) = ContentsByPath(result[1].second)

\* what holds of C14: the paths written, and store.ts and invalidation.ts
C14_SamePaths ==
    result # <<>>
    => /\ {result[1].first[i].path : i \in DOMAIN result[1].first}
            = {result[1].second[i].path : i \in DOMAIN result[1].second}
       /\ ArtifactAt(result[1].first, StorePath)
            = ArtifactAt(result[1].second, StorePath)
       /\ ArtifactAt(result[1].first, InvalidationPath)
            = ArtifactAt(result[1].second, InvalidationPath)

\* ─── Route derivation: properties ──────────────────────────────────────
\* the route the README gives for a path, under the default CRUD set
LiteralRoutes ==
    {<<<<"tasks", "list">>, <<"/api/", "tasks">>>>,
     <<<<"tasks", "create">>, <<"/api/", "tasks">>>>,
     <<<<"users", "profile", "update">>, <<"/api/", "users", "/", "profile">>>>,
     <<<<"billing", "invoices">>, <<"/api/", "billing", "/", "invoices">>>>}

\* C15: for a path with segments s1..sn and a CRUD filename set,
\* deriveRoutePath returns /api/ followed by s1..s(n-1) joined with "/",
\* and sn after them exactly when sn is not in the set; the four literal
\* cases come out as documented.
C15_RouteDerivation ==
    result # <<>>
    => LET segs == args[1].segments
           n == Len(segs)
           last1 == segs[n]
           route == result[1]
           kept == SelectSeq(Tail(route), LAMBDA t : t # "/")
       IN /\ Head(route) = "/api/"
          /\ SubSeq(kept, 1, n - 1) = SubSeq(segs, 1, n - 1)
          /\ last1 \in args[1].crud => kept = SubSeq(segs, 1, n - 1)
          /\ last1 \notin args[1].crud => kept = segs
          /\ Len(Tail(route)) = IF kept = <<>> THEN 0 ELSE 2 * Len(kept) - 1
          /\ \A i \in DOMAIN Tail(route) : (Tail(route)[i] = "/") <=> (i % 2 = 0)
          /\ \A lit \in LiteralRoutes :
                (segs = lit[1] /\ args[1].crud = CrudFilenames) => route = lit[2]

C15_Witness ==
    /\ result # <<>>
    /\ args[1].segments = <<"users", "profile", "update">>
    /\ args[1].crud = CrudFilenames
    /\ result[1] = <<"/api/", "users", "/", "profile">>

\* ─── Artifact generation: properties ───────────────────────────────────
RouteFiles(arts) == {i \in DOMAIN arts : arts[i].content.kind = "route.ts"}

\* the route path has a descriptor with a handler
Served(eps, routePath) ==
    \E i \in DOMAIN eps : eps[i].hasHandler /\ eps[i].routePath = routePath

\* C16: a descriptor without a handler is in no route group: no route file
\* imports its module, a route path gets a route.ts only when a descriptor
\* with a handler has that route path, and each route.ts exports exactly the
\* HTTP methods of the handler-bearing descriptors of its route; the
\* descriptor is still an operation and a hook of api.ts.
C16_ClientOnly ==
    result # <<>>
    => LET eps == args[1]
           arts == result[1]
           api == ArtifactAt(arts, ApiPath)
       IN /\ \A i \in DOMAIN eps :
                ~eps[i].hasHandler =>
                   /\ \A r \in RouteFiles(arts) :
                         \A j \in DOMAIN arts[r].content.imports :
                            arts[r].content.imports[j].from # eps[i].importPath
                   /\ api.defs[i] = GenerateEndpointDef(eps[i])
                   /\ api.hooks[i] = HookExport(eps[i])
          /\ {arts[r].path : r \in RouteFiles(arts)}
               = {Append(AppRouteDir(eps[i].routePath), "route.ts") :
                     i \in {k \in DOMAIN eps : eps[k].hasHandler}}
          /\ \A r \in RouteFiles(arts) :
                {arts[r].content.exports[j].method :
                    j \in DOMAIN arts[r].content.exports}
                  = {UpperCase(eps[i].method) :
                        i \in {k \in DOMAIN eps :
                                 /\ eps[k].hasHandler
                                 /\ Append(AppRouteDir(eps[k].routePath), "route.ts")
                                      = arts[r].path}}
          /\ Len(api.defs) = Len(eps)

C16_Witness ==
    /\ result # <<>>
    /\ Len(args[1]) = 2
    /\ ~args[1][1].hasHandler
    /\ args[1][2].hasHandler
    /\ args[1][1].routePath = args[1][2].routePath
    /\ args[1][1].method # args[1][2].method
    /\ Cardinality(RouteFiles(result[1])) = 1

C16_WitnessAlone ==
    /\ result # <<>>
    /\ Len(args[1]) = 2
    /\ ~args[1][1].hasHandler
    /\ ~args[1][2].hasHandler
    /\ RouteFiles(result[1]) = {}
    /\ Len(ArtifactAt(result[1], ApiPath).hooks) = 2

\* C17: api.ts imports `retry` and wraps the base query in
\* retry(..., { maxRetries: 0 }) exactly when some descriptor has a positive
\* maxRetries; the definition of a descriptor has an extraOptions line, with
\* its maxRetries, exactly when its maxRetries is positive; and every other
\* definition is what it is when no descriptor retries.
C17_Retries ==
    result # <<>>
    => LET eps == args[1]
           api == ArtifactAt(result[1], ApiPath)
           some == \E i \in DOMAIN eps : eps[i].maxRetries > 0
           none == SelectSeq(eps, LAMBDA ep : ep.maxRetries <= 0)
       IN /\ some <=> (\E k \in DOMAIN api.imports : api.imports[k] = "retry")
          /\ some <=> (Head(api.baseQuery) = "retry("
                         /\ api.baseQuery[Len(api.baseQuery)] = ", { maxRetries: 0 })")
          /\ ~some => api.baseQuery = <<DefaultBaseQuery>>
          /\ \A i \in DOMAIN eps :
                /\ eps[i].maxRetries > 0 =>
                      api.defs[i].extraOptions = <<[maxRetries |-> eps[i].maxRetries]>>
                /\ eps[i].maxRetries <= 0 =>
                      /\ api.defs[i].extraOptions = <<>>
                      /\ \E k \in DOMAIN none :
                            GenerateApiTs(none).defs[k] = api.defs[i]

C17_Witness ==
    /\ result # <<>>
    /\ Len(args[1]) = 2
    /\ args[1][1].maxRetries = 3
    /\ args[1][2].maxRetries = 0
    /\ Len(ArtifactAt(result[1], ApiPath).imports) = 3

C17_WitnessNone ==
    /\ result # <<>>
    /\ Len(args[1]) = 2
    /\ args[1][1].maxRetries = 0
    /\ args[1][2].maxRetries = 0
    /\ ArtifactAt(result[1], ApiPath).baseQuery = <<DefaultBaseQuery>>

\* ─── Rate limiting: properties ─────────────────────────────────────────
\* the calls with this key and this (windowMs, max) that returned
\* allowed = true at a time in [from, from + windowMs)
AllowedIn(key, cfg, from) ==
    {i \in DOMAIN log :
        /\ log[i].key = key
        /\ log[i].windowMs = cfg.windowMs
        /\ log[i].max = cfg.max
        /\ log[i].allowed
        /\ from <= log[i].at
        /\ log[i].at < from + cfg.windowMs}

Bounded ==
    \A key \in LimitKeys, cfg \in LimitConfigs, n \in 0..MaxClock :
       Cardinality(AllowedIn(key, cfg, n * StepMs)) <= cfg.max

\* C18: for every key and every (windowMs, max), the calls of check() with
\* them that returned allowed = true within any interval of length windowMs
\* number at most max, also when other calls for the key used another
\* (windowMs, max).
C18_RateLimitBound == Bounded

\* the bound when every call on the adapter used the same (windowMs, max)
C18_UniformBound ==
    (\A i, j \in DOMAIN log :
        log[i].windowMs = log[j].windowMs /\ log[i].max = log[j].max)
    => Bounded

\* ─── Route handler: properties ─────────────────────────────────────────
Called(op) == {i \in DOMAIN trace : trace[i].op = op}

GotUser(got) == \E i \in Called("getUser") : trace[i].got = got

Responded == response # <<>>

ProtectedRequest == req # <<>> /\ req[1].def.protected

\* def.handler runs for a protected endpoint only with an adapter whose
\* getUser returned a user
HandlerOnlyWithUser ==
    ProtectedRequest /\ Called("handler") # {}
    => options.auth = "adapter" /\ GotUser("user")

\* a null user: 401, no handler, no rate limiter
NullUserIs401 ==
    ProtectedRequest /\ GotUser("null")
    => /\ Responded => response[1].status = 401
       /\ Called("handler") = {}
       /\ Called("check") = {}

\* C19: for a definition with protected = true the handler is invoked only
\* if an auth adapter is configured and its getUser returned a user for this
\* request; the response of a request to a handler without adapter is 500,
\* the response after getUser returned null is 401, and in both cases
\* neither def.handler nor the rate limiter is invoked.
C19_Protected ==
    /\ HandlerOnlyWithUser
    /\ NullUserIs401
    /\ ProtectedRequest /\ options.auth = "none"
       => /\ Responded => response[1].status = 500
          /\ Called("handler") = {}
          /\ Called("check") = {}

\* the same, with the 500 only for the requests that passed validation
C19_AfterValidation ==
    /\ HandlerOnlyWithUser
    /\ NullUserIs401
    /\ ProtectedRequest /\ options.auth = "none"
       => /\ Responded /\ ~ParseRequest(req[1], req[1].def.request).throws
             => response[1].status = 500
          /\ Called("handler") = {}
          /\ Called("check") = {}

\* C20: in every request adapter.check is called at most once, after the
\* user was resolved (a protected endpoint's getUser returned the user, who
\* is the one passed to keyFn; an unprotected endpoint passes undefined) and
\* before def.handler; when check returned allowed = false the response is
\* 429 with a Retry-After of at least 1 and def.handler is not invoked.
C20_RateLimitAfterAuth ==
    /\ Cardinality(Called("check")) <= 1
    /\ \A i \in Called("check") :
          /\ i > 1
          /\ trace[i - 1].op = "keyFn"
          /\ trace[i - 1].user = user
          /\ IF req[1].def.protected
             THEN /\ \E j \in 1..(i - 1) :
                        trace[j].op = "getUser" /\ trace[j].got = "user"
                  /\ user = <<TheUser>>
             ELSE user = <<>>
          /\ \A j \in Called("handler") : i < j
    /\ Called("handler") # {}
          /\ (options.rateLimit # <<>> \/ req[1].def.rateLimit # <<>>)
       => Called("check") # {} /\ rl # <<>> /\ rl[1].allowed
    /\ rl # <<>> /\ ~rl[1].allowed
       => /\ Called("handler") = {}
          /\ Responded
             => /\ response[1].status = 429
                /\ response[1].headers.RetryAfter >= 1

\* a limited request of an authenticated user, answered after the window's
\* reset time has passed
C20_Witness ==
    /\ Responded
    /\ response[1].status = 429
    /\ req[1].def.protected
    /\ user = <<TheUser>>
    /\ trace[Len(trace)].op = "check"
    /\ trace[Len(trace)].key = TheUser.id
    /\ RetryAfterRaw(rl[1].resetAt, clock) < 1

\* a protected endpoint without adapter: 500
C19_Witness500 ==
    /\ Responded
    /\ ProtectedRequest
    /\ options.auth = "none"
    /\ response[1].status = 500

\* ─── Error mapping: properties ─────────────────────────────────────────
\* the error handlers of the call that return a Response for its error
Answering ==
    {i \in DOMAIN args[1].errorHandlers :
        args[1].error.class \in args[1].errorHandlers[i].on}

\* the built-in mapping: ValidationError, Error with a numeric status,
\* anything else
BuiltIn(error) ==
    IF error.class = "ValidationError" THEN 400
    ELSE IF error.class = "Error" /\ error.status # <<>> THEN error.status[1]
    ELSE 500

InOrder ==
    LET hs == args[1].errorHandlers
        ended == result[1]
    IN IF Answering # {}
       THEN LET first == CHOOSE i \in Answering : \A j \in Answering : i <= j
            IN /\ ended.called = 1..first
               /\ ~ended.rejects => ended.response[1].status = hs[first].status
       ELSE /\ ended.called = DOMAIN hs
            /\ ~ended.rejects => ended.response[1].status = BuiltIn(args[1].error)

\* C21: when request processing throws, the error handlers are called in
\* array order up to the first that returns a Response, which is the
\* response; if none does, the response is the built-in one (400 for a
\* ValidationError, its status for an Error with a numeric status, 500
\* otherwise); and the promise of the route handler never rejects.
C21_ErrorMapping ==
    result # <<>> => InOrder /\ ~result[1].rejects

\* the order and the mapping alone; a rejection only from an error handler
\* that throws or a status no Response takes
C21_OrderAndMapping ==
    result # <<>>
    => /\ InOrder
       /\ result[1].rejects
          => \/ \E i \in result[1].called : args[1].errorHandlers[i].does = "throws"
             \/ /\ Answering = {}
                /\ ~StatusOk(BuiltIn(args[1].error))

\* ─── Request validation: properties ────────────────────────────────────
\* the request is one that schema.parse (or req.json) throws for
FailsValidation == req # <<>> /\ ParseRequest(req[1], req[1].def.request).throws

\* def.handler runs for a definition with a schema only after parse returned,
\* and it is given what parse returned: as `query` for a request of a query
\* method, as `body` for another
ValidatedFirst ==
    req # <<>> /\ req[1].def.request
    => /\ \A i \in Called("handler") :
             /\ \E j \in 1..(i - 1) : trace[j].op = "parse" /\ ~trace[j].throws
             /\ req[1].valid
             /\ IF req[1].method \in {"GET", "DELETE", "HEAD", "OPTIONS"}
                THEN /\ trace[i].query = <<SchemaParse(SearchParams(req[1]))>>
                     /\ trace[i].body = <<>>
                ELSE /\ req[1].json
                     /\ trace[i].body = <<SchemaParse(JsonBody(req[1]))>>
                     /\ trace[i].query = <<>>
       /\ FailsValidation => Called("handler") = {}

C22_WitnessNotJson ==
    /\ req # <<>>
    /\ req[1].def.request
    /\ ~req[1].json
    /\ Responded
    /\ response[1].status = 400
    /\ Called("handler") = {}

\* a GET whose parameters the schema accepts reaches the handler
C22_WitnessQuery ==
    /\ req # <<>>
    /\ req[1].def.request
    /\ req[1].method = "GET"
    /\ Called("handler") # {}
    /\ trace[Len(trace)].query = <<SchemaParse(SearchParams(req[1]))>>

\* a request that fails validation, answered by the configured error handler
C22_WitnessHandled ==
    /\ FailsValidation
    /\ Responded
    /\ response[1].status = 422
    /\ Called("handler") = {}

\* ─── Orphaned route artifacts: properties ──────────────────────────────
\* the route files on disk whose route has no descriptor with a handler
\* among the given descriptors
Orphans(outTree, endpoints) ==
    {p \in DOMAIN outTree :
        /\ IsRouteFile(p)
        /\ \A i \in DOMAIN endpoints :
              endpoints[i].hasHandler
              => Append(AppRouteDir(endpoints[i].routePath), "route.ts") # p}

\* C23: no step deletes a generated file, and a route.ts whose group has no
\* handler-bearing descriptor left in the descriptor set being generated
\* (the cache in watch mode, the extracted files in a one-shot rebuild) keeps
\* its content: regeneration neither deletes nor rewrites it.
C23_OrphansKept ==
    [][/\ \A p \in DOMAIN out : p \in DOMAIN out'
       /\ \A p \in Orphans(out, Values(cache)) : out'[p] = out[p]]_vars

\* watch mode has regenerated after the deletion of the last endpoint of a
\* route, and the route's file is still there
C23_Witness ==
    /\ proc = "watch"
    /\ fire.case = "deleted"
    /\ fire.done
    /\ Orphans(out, Values(cache)) # {}

\* a one-shot rebuild has ended that did not visit a route file on disk
C23_WitnessRebuild ==
    /\ proc = "none"
    /\ last.outcome = "rebuilt"
    /\ \E p \in Orphans(out, Values(cache)) : p \notin last.visited

\* ─── Route grouping: properties ────────────────────────────────────────
\* the descriptors of the list that have a handler, this route path and this
\* upper-cased method
Claimants(eps, routePath, httpMethod) ==
    {i \in DOMAIN eps :
        /\ eps[i].hasHandler
        /\ eps[i].routePath = routePath
        /\ UpperCase(eps[i].method) = httpMethod}

\* C24: after groupEndpointsByRoute each route path has one group and each
\* (route path, upper-cased method) one descriptor; it is the latest in list
\* order of the handler-bearing descriptors with that pair, the earlier ones
\* are in no group, and every list is grouped (no error).
C24_LastWins ==
    result # <<>>
    => LET eps == args[1]
           groups == result[1]
       IN /\ Cardinality(KeySet(groups)) = Len(groups)
          /\ \A g \in DOMAIN groups :
                LET methods == groups[g].v.methods
                IN /\ groups[g].v.routePath = groups[g].k
                   /\ Cardinality(KeySet(methods)) = Len(methods)
                   /\ methods # <<>>
                   /\ \A m \in DOMAIN methods :
                         LET among == Claimants(eps, groups[g].k, methods[m].k)
                         IN /\ among # {}
                            /\ \E i \in among :
                                  /\ \A j \in among : j <= i
                                  /\ methods[m].v = eps[i]
          /\ \A i \in DOMAIN eps :
                eps[i].hasHandler
                => \E g \in DOMAIN groups :
                      /\ groups[g].k = eps[i].routePath
                      /\ UpperCase(eps[i].method) \in KeySet(groups[g].v.methods)

\* two handler-bearing descriptors with the same route path and method, and
\* the group holds the second
C24_Witness ==
    /\ result # <<>>
    /\ Len(args[1]) >= 2
    /\ \E i, j \in DOMAIN args[1] :
          /\ i < j
          /\ Claimants(args[1], args[1][i].routePath, UpperCase(args[1][i].method))
               = {i, j}
          /\ \E g \in DOMAIN result[1] :
                \E m \in DOMAIN result[1][g].v.methods :
                   result[1][g].v.methods[m].v = args[1][j]

\* ─── Tag types: properties ─────────────────────────────────────────────
\* the quoted word tokens of the two source texts of the call
QuotedWords ==
    {MatchAll(args[1].provides, 1)[k] : k \in DOMAIN MatchAll(args[1].provides, 1)}
    \cup {MatchAll(args[1].invalidates, 1)[k] :
             k \in DOMAIN MatchAll(args[1].invalidates, 1)}

Listed == {result[1][k] : k \in DOMAIN result[1]}

SortedNoDuplicates ==
    \A i, j \in DOMAIN result[1] : i < j => StringLess(result[1][i], result[1][j])

\* C25: a quoted word token of the provides/invalidates text is in tagTypes
\* if and only if its first character is an upper-case letter (not when it
\* is a lower-case letter, a digit or an underscore); tagTypes is sorted
\* ascending and has no duplicates.
C25_TagTypes ==
    result # <<>>
    => /\ Listed = {w \in QuotedWords : w[1] = "T"}
       /\ SortedNoDuplicates

\* what the code does: every token but those that start with a lower-case
\* letter
C25_NotLowerCase ==
    result # <<>>
    => /\ Listed = {w \in QuotedWords : w[1] # "a"}
       /\ SortedNoDuplicates

\* ─── Optimistic fragments: properties ──────────────────────────────────
\* the three required sub-patterns all match on the text
AllMatch(text, keys) ==
    /\ TargetMatch(text) # <<>>
    /\ ArgsMatch(text, keys) # <<>>
    /\ UpdateMatch(text) # <<>>

SingleShape(source) == Includes(source, "target:") /\ ~Includes(source, "updates:")

MultiShape(source) == Includes(source, "updates:")

\* the fragment is of one of the two shapes and its sub-patterns do not
\* all match (multi shape: in none of the array's elements)
Malformed(source) ==
    \/ SingleShape(source) /\ ~AllMatch(source, {"update:"})
    \/ /\ MultiShape(source)
       /\ \A i \in DOMAIN ExtractUpdatesArray(source) :
             ~AllMatch(ExtractUpdatesArray(source)[i], {"update:", "condition:"})

OptimisticOf(file) == file.props["optimistic"].init

\* the descriptor's operation, its other lines and its hook are emitted as
\* they are for the same endpoint file without the optimistic property
RestEmitted(file, api) ==
    LET plain == GenerateApiTs(ParseEndpointFile(PCreate,
                     EndpointFile("post", Without(file.props, "optimistic"))).ep)
    IN /\ Len(api.defs) = 1
       /\ \A k \in DOMAIN api.defs[1] \ {"onQueryStarted"} :
             api.defs[1][k] = plain.defs[1][k]
       /\ api.hooks = plain.hooks

\* C26: for a descriptor whose optimistic source is of the single or of the
\* multi shape and whose required sub-patterns (target, args, update) do not
\* all match (multi shape: in none of the array elements), no onQueryStarted
\* code at all is emitted, while the operation, its other lines and its hook
\* are emitted in api.ts.
C26_SilentlyDropped ==
    (result # <<>> /\ Malformed(OptimisticOf(args[1]))) =>
        /\ result[1].defs[1].onQueryStarted = <<>>
        /\ RestEmitted(args[1], result[1])

\* what holds instead: a malformed single shape emits nothing, a malformed
\* multi shape emits the handler with an empty list of patches, and the
\* rest of the descriptor is emitted either way
C26_PatchCodeDropped ==
    (result # <<>> /\ Malformed(OptimisticOf(args[1]))) =>
        /\ SingleShape(OptimisticOf(args[1])) =>
              result[1].defs[1].onQueryStarted = <<>>
        /\ MultiShape(OptimisticOf(args[1])) =>
              result[1].defs[1].onQueryStarted
                  = <<OpenHandler, PatchesDecl, UndoAll, CloseHandler>>
        /\ RestEmitted(args[1], result[1])

\* a malformed single-shape fragment has been generated from
C26_WitnessSingle ==
    /\ result # <<>>
    /\ SingleShape(OptimisticOf(args[1]))
    /\ Malformed(OptimisticOf(args[1]))
    /\ TargetMatch(OptimisticOf(args[1])) # <<>>

\* a multi-shape fragment with elements none of which matches
C26_WitnessMulti ==
    /\ result # <<>>
    /\ Malformed(OptimisticOf(args[1]))
    /\ Len(ExtractUpdatesArray(OptimisticOf(args[1]))) = MaxUpdates

\* well-formed fragments of both shapes produce their patch code
C26_WitnessPatched ==
    /\ result # <<>>
    /\ \E i \in DOMAIN result[1].defs[1].onQueryStarted :
          /\ "condition" \in DOMAIN result[1].defs[1].onQueryStarted[i]
          /\ result[1].defs[1].onQueryStarted[i].condition # <<>>

\* ─── Processing of every change: properties ────────────────────────────
\* fs.watch has reported every change made to the tree: none was made
\* before it was registered, and the session was not killed
AllNotified == proc = "watch" /\ budget.env = MaxWatchEnv

\* the changes are over: every notification was delivered, the timer has
\* fired and its callback has returned
Settled ==
    /\ LoopIdle
    /\ fsEvents = <<>>
    /\ debounceTimer = <<>>
    /\ burst.n > 0
    /\ burst.fires > 0

\* the manifest has the current hash of p, or p is gone from the tree, the
\* manifest and the cache
Processed(p) ==
    IF p \in DOMAIN src THEN ManifestEntryIs(manifest, p, HashFile(src[p]))
    ELSE p \notin KeySet(manifest) /\ p \notin KeySet(cache)

\* C27: if source files stop changing, then once the debounce timer has
\* fired, the manifest entry of every existing endpoint file equals that
\* file's current content hash and every deleted file has neither a
\* manifest nor a cache entry, also when notifications for two different
\* paths arrived within the same debounce window.
C27_EveryChangeProcessed ==
    (AllNotified /\ Settled) => \A p \in Paths : p.ext = "ts" => Processed(p)

\* what holds instead: the path of the last notification of the window, the
\* one the timer callback was created for, has been processed
C27_LastPathProcessed ==
    (AllNotified /\ Settled) => Processed(fire.path)

\* two paths changed within one window and the timer has fired
C27_WitnessTwoPaths ==
    /\ AllNotified
    /\ Settled
    /\ Cardinality(burst.paths) = 2
    /\ \A p \in burst.paths : p.ext = "ts"

\* ─── Watch mode against a fresh build: properties ──────────────────────
\* every endpoint file of the tree extracts to a descriptor
AllExtract ==
    \A p \in DOMAIN src :
        p.ext = "ts" => ParseEndpointFile(p, src[p]).tag = "descriptor"

\* watch mode has processed every change of the tree
CaughtUp ==
    /\ AllNotified
    /\ Settled
    /\ \A p \in Paths : p.ext = "ts" => Processed(p)

\* the api.ts a one-shot full rebuild over the source files would generate
FreshApiTs == GenerateApiTs(Values(ParseAllEndpoints(src)))

\* C28: after watch mode has processed any sequence of file additions,
\* successfully extracted edits and deletions, each notification handled in
\* its own debounce window, the api.ts it last generated is byte-identical
\* to the api.ts a one-shot full rebuild over the same source files would
\* generate.
C28_AgreesWithFreshBuild ==
    (CaughtUp /\ AllExtract /\ Cardinality(burst.paths) = 1)
    => /\ ApiPath \in DOMAIN out
       /\ out[ApiPath] = FreshApiTs

\* what holds instead: api.ts is generated from the descriptors a full
\* rebuild would extract, in the order in which the cache got its keys
C28_SameDescriptors ==
    (CaughtUp /\ AllExtract /\ Cardinality(burst.paths) = 1)
    => /\ ApiPath \in DOMAIN out
       /\ out[ApiPath] = GenerateApiTs(Values(cache))
       /\ {Values(cache)[i] : i \in DOMAIN cache}
            = {Values(ParseAllEndpoints(src))[i] : i \in DOMAIN ParseAllEndpoints(src)}
       /\ Len(cache) = Len(ParseAllEndpoints(src))

\* a file was added while watching and the regeneration for it is over
C28_WitnessAdded ==
    /\ CaughtUp
    /\ AllExtract
    /\ fire.done
    /\ fire.case = "changed"
    /\ fire.known = "none"
    /\ Len(cache) = 2

\* ─── Manifest and cache in watch mode: properties ──────────────────────
\* the manifest's hash for p is the hash of the content the cached
\* descriptor of p was extracted from, or of content that does not extract
HashOfCached(p) ==
    /\ p \in KeySet(manifest)
    /\ \E c \in ContentsOf(p) :
          /\ ManifestEntryIs(manifest, p, HashFile(c))
          /\ \/ ParseEndpointFile(p, c).ep = CacheEntry(cache, p)
             \/ ParseEndpointFile(p, c).tag # "descriptor"

\* the fired callback dismissed a file as unchanged while the cache held a
\* descriptor extracted from other content than the file has
DismissedStale ==
    /\ fire.case = "unchanged"
    /\ fire.before # <<>>
    /\ \E c \in ContentsOf(fire.path) :
          /\ HashFile(c) = fire.hash
          /\ ParseEndpointFile(fire.path, c).tag = "descriptor"
          /\ ParseEndpointFile(fire.path, c).ep # fire.before

\* C29: in watch mode, for every path that has a cached descriptor the hash
\* recorded in the manifest is the hash of the content that descriptor was
\* extracted from, or of later content whose extraction failed, also when a
\* file is edited while the startup build is running; so no notification is
\* dismissed as unchanged while the cache holds a descriptor extracted from
\* older content.
C29_ManifestMatchesCache ==
    /\ Watching => \A p \in KeySet(cache) : HashOfCached(p)
    /\ ~DismissedStale

\* what holds instead: the same when no file changes during the startup
\* build
C29_QuietStartup ==
    AllNotified =>
        /\ Watching => \A p \in KeySet(cache) : HashOfCached(p)
        /\ ~DismissedStale

\* a file was edited during the startup build and a later notification for
\* it has been handled
C29_WitnessStartupEdit ==
    /\ proc = "watch"
    /\ budget.env < MaxWatchEnv
    /\ fire.case # "none"
    /\ fire.path \in KeySet(cache)

\* ─── The persisted manifest: properties ────────────────────────────────
\* one entry per endpoint source file of the tree, holding its hash
EntriesFor(tree) ==
    {<<p, HashFile(tree[p])>> : p \in DOMAIN EndpointFiles(tree)}

\* the entries of the manifest file, as loadManifest would read them
Persisted(file) ==
    {<<EntriesOf(file)[i].k, EntriesOf(file)[i].v>> : i \in DOMAIN EntriesOf(file)}

\* the last runGenerate returned, and the tree did not change while it ran
ReturnedNormally ==
    /\ last.outcome \in {"no files", "nothing changed", "rebuilt"}
    /\ last.clean

\* C30: after any runGenerate that returns normally, the persisted manifest
\* has exactly one entry per endpoint source file currently present (files
\* skipped as malformed included), each holding that file's content hash,
\* for every sequence of additions, edits and deletions between runs, the
\* deletion of all endpoint files included.
C30_ManifestComplete ==
    ReturnedNormally =>
        /\ Persisted(last.mfAfter) = EntriesFor(last.files)
        /\ Len(EntriesOf(last.mfAfter)) = Cardinality(DOMAIN EndpointFiles(last.files))

\* what holds instead: the same for a run that found an endpoint file; a
\* run that finds none leaves the manifest file as it was
C30_UnlessNoFiles ==
    ReturnedNormally =>
        IF last.outcome = "no files" THEN last.mfAfter = last.mfBefore
        ELSE /\ Persisted(last.mfAfter) = EntriesFor(last.files)
             /\ Len(EntriesOf(last.mfAfter))
                  = Cardinality(DOMAIN EndpointFiles(last.files))

\* a run that found no endpoint file after a rebuild had saved entries
C30_WitnessAllDeleted ==
    /\ ReturnedNormally
    /\ last.outcome = "no files"
    /\ Consecutive
    /\ prev.outcome = "rebuilt"
    /\ EntriesOf(prev.mfAfter) # <<>>

\* a rebuild over a malformed file and another one
C30_WitnessMalformed ==
    /\ ReturnedNormally
    /\ last.outcome = "rebuilt"
    /\ Cardinality(DOMAIN EndpointFiles(last.files)) = 2
    /\ \E p \in DOMAIN EndpointFiles(last.files) :
          ParseEndpointFile(p, last.files[p]).tag = "null"

====
